---------------------------- MODULE Spec2Model ----------------------------
(***************************************************************************)
(* A model of pcholakov/accounting-db:                                     *)
(*   - createTransfersBatch, the transactional write builder of the ledger *)
(*     (lib/transactions.ts), and                                          *)
(*   - LoadTestDriver, the closed-loop load-test driver                    *)
(*     (lib/load-test-runner.ts, latest variant with timeoutValueMs).      *)
(* The two parts share no state; each has a specification of its own:      *)
(* SpecBatch for the write builder, Spec for the driver.                   *)
(***************************************************************************)
EXTENDS Integers, Sequences, FiniteSets, Bags, TLC

VARIABLES
    \* ---- createTransfersBatch ----
    txpc,          \* "idle" | "sent": position of the one caller of createTransfersBatch
    batch,         \* the batch: Transfer[] argument of the current call
    items,         \* TransactItems of the TransactWriteCommand handed to documentClient.send
    \* ---- the caller of createTransfersBatch and the retry strategy it passes ----
    strategy,      \* "noRetry" (the default) | "pRetry" (CreateTransfersLoadTest.request)
    attemptNumber, \* attempts of the current call begun so far
    delay,         \* the timeout p-retry waits before the next attempt, 0 when none
    nextToken,     \* randomUUID(): the tokens drawn so far are 1..nextToken-1
    outcome,       \* <<>> while a call runs, then <<result>> or <<error>> of the latest call
    calls,         \* calls of createTransfersBatch begun
    errors,        \* the rejections of the current call's attempts, in order, kept by p-retry
    \* ---- CreateTransfersLoadTest: its counters ----
    globalWriteCounter, conflictsRetryAttempts,
    \* ---- the table behind documentClient ----
    accounts,      \* account id -> its item's attributes, for the accounts that have an item
    transfers,     \* the transfer items
    sinkTokens,    \* ClientRequestTokens the table still retains
    received,      \* the TransactWriteCommands it was sent, in order
    \* ---- bookkeeping of the table before a call (not program state) ----
    accountsBefore, transfersBefore,
    lastWritten,   \* <<>> or <<the batch of the latest call that returned OK>>
    \* ---- LoadTestDriver: fields set by the constructor ----
    targetRps, workerCycleTimeMs, overallDurationMs, warmupDurationMs,
    timeoutValueMs, benchmarkDurationMs, requestsPerIteration,
    \* ---- LoadTestDriver: counters and histograms ----
    iterationCount, requestCount, errorIterations, missedIterations,
    workerRunTime, workerBackoffTime, workerBehindScheduleTime,
    requestLatencyMicros,   \* RecordableHistogram: the bag of recorded values
    serviceTimeMicros,      \* RecordableHistogram: the bag of recorded values
    \* ---- run(): its position, locals and outcome ----
    runpc,         \* "new" | "setup" | "workers" | "teardown" | "returned" | "failed"
    runResult,     \* "none" | "undefined" | "report" | "setupError" | "teardownError"
    warmupEndTime, endTime,
    report,        \* <<>> until stop() returns, then <<the object it returns>>
    \* ---- concurrentWorkerLoop(w): its position and locals ----
    wpc,           \* "idle" | "jitter" | "warmup" | "warmupSleep" | "measure" | "backoff" | "finished"
    iterationStart, requestStart, wakeAt,
    \* ---- the Test object, as a spy sees it ----
    setupCalls, teardownCalls, performCalls,   \* calls begun
    performFailures,                           \* performIteration calls that rejected
    measuredCalls, measuredFailures,           \* the same, of the measurement loop only (settled calls)
    \* ---- performance.now(), in ms since run() read startTime ----
    now,
    \* ---- bookkeeping of intended starts (not program state) ----
    \* ---- requests running at once on one CreateTransfersLoadTest ----
    rpc,           \* per request: "idle" | "attempt" | "wait" | "done" | "failed"
    rattempt,      \* per request: attempts begun
    startTime,     \* per request: let startTime of the closure of its retryStrategy call
    attemptStart,  \* per request: when its attempt in flight began
    retryAt,       \* per request: when p-retry's timer is due
    clock,         \* performance.now() of the workload, in ticks of TickMs
    conflictsRetryDelay,
    failedAt,      \* per request: when its latest attempt failed (not program state)
    observedDelay, \* the waits between a failure and the same request's next attempt, summed
    lastIntended,  \* per worker: iterationStart of its latest measured iteration, -1 if none
    arrivalsTaken  \* intended starts accounted so far: performed for the first time, or skipped

retryvars == <<strategy, attemptNumber, delay, nextToken, outcome, calls, errors>>
loadvars == <<globalWriteCounter, conflictsRetryAttempts>>
sinkvars == <<accounts, transfers, sinkTokens, received>>
beforevars == <<accountsBefore, transfersBefore, lastWritten>>
storevars == <<retryvars, loadvars, sinkvars, beforevars>>
delayvars == <<rpc, rattempt, startTime, attemptStart, retryAt, clock, conflictsRetryDelay,
               failedAt, observedDelay>>
txvars == <<txpc, batch, items, storevars, delayvars>>
cfgvars == <<targetRps, workerCycleTimeMs, overallDurationMs, warmupDurationMs,
             timeoutValueMs, benchmarkDurationMs, requestsPerIteration>>
counters == <<iterationCount, requestCount, errorIterations, missedIterations,
              workerRunTime, workerBackoffTime, workerBehindScheduleTime>>
histograms == <<requestLatencyMicros, serviceTimeMicros>>
runvars == <<runpc, runResult, warmupEndTime, endTime>>
workervars == <<wpc, iterationStart, requestStart, wakeAt>>
spyvars == <<setupCalls, teardownCalls, performCalls, performFailures>>
tallyvars == <<measuredCalls, measuredFailures>>
ghostvars == <<lastIntended, arrivalsTaken>>
drvvars == <<cfgvars, counters, histograms, runvars, report, workervars, spyvars, tallyvars,
             now, ghostvars>>

vars == <<txvars, drvvars>>

(***************************************************************************)
(* Bounds of the inputs.                                                   *)
(***************************************************************************)
MaxBatch == 3
MaxAccount == 2
Amounts == {1, 2}

AccountIds == 1..MaxAccount

\* The requests of the workload that run at once, one per worker.
MaxRequests == 2
Requests == 1..MaxRequests

\* interface Transfer, restricted to the fields createTransfersBatch reads.
\* The k-th transfer of a batch carries id k (ids are unique within a batch).
TransferAt(k, d, c, amt) ==
    [id |-> k, debit_account_id |-> d, credit_account_id |-> c, amount |-> amt]

TransferChoices == AccountIds \X AccountIds \X Amounts

\* The batch of n transfers that f chooses.
BatchOf(n, f) == [k \in 1..n |-> TransferAt(k, f[k][1], f[k][2], f[k][3])]

(***************************************************************************)
(* createTransfersBatch: the forEach over the batch.                       *)
(***************************************************************************)
\* A Put without its ConditionExpression.
PutItemUnconditional(t) ==
    [op |-> "Put", pk |-> <<"transfer", t.id>>, sk |-> <<"transfer", t.id>>,
     item |-> t, ConditionExpression |-> ""]

\* The Put pushed for every transfer.
PutItem(t) ==
    [op |-> "Put", pk |-> <<"transfer", t.id>>, sk |-> <<"transfer", t.id>>,
     item |-> t, ConditionExpression |-> "attribute_not_exists(pk)"]

\* The Update object literal created for an account seen for the first time.
UpdateItem(a, debit, credit) ==
    [op |-> "Update", pk |-> <<"account", a>>, sk |-> <<"account", a>>,
     UpdateExpression |-> "ADD debits_posted :debit_amount, credits_posted :credit_amount",
     debit_amount |-> debit, credit_amount |-> credit]

\* pendingUpdates.set(a, item): the map holds a reference to the object that
\* sits in items, modelled as the object's index in items.
MapSet(m, a, idx) == [x \in (DOMAIN m) \cup {a} |-> IF x = a THEN idx ELSE m[x]]

\* The debit half of the forEach body.
ApplyDebitNoCoalesce(st, t) ==
    [items |-> Append(st.items, UpdateItem(t.debit_account_id, t.amount, 0)),
     pendingUpdates |-> MapSet(st.pendingUpdates, t.debit_account_id, Len(st.items) + 1)]

ApplyDebit(st, t) ==
    LET a == t.debit_account_id IN
    IF a \in DOMAIN st.pendingUpdates
    THEN [st EXCEPT !.items[st.pendingUpdates[a]].debit_amount = @ + t.amount]
    ELSE [items |-> Append(st.items, UpdateItem(a, t.amount, 0)),
          pendingUpdates |-> MapSet(st.pendingUpdates, a, Len(st.items) + 1)]

\* The credit half of the forEach body.
ApplyCreditOverwrite(st, t) ==
    LET a == t.credit_account_id IN
    IF a \in DOMAIN st.pendingUpdates
    THEN [st EXCEPT !.items[st.pendingUpdates[a]].credit_amount = t.amount]
    ELSE [items |-> Append(st.items, UpdateItem(a, 0, t.amount)),
          pendingUpdates |-> MapSet(st.pendingUpdates, a, Len(st.items) + 1)]

ApplyCredit(st, t) ==
    LET a == t.credit_account_id IN
    IF a \in DOMAIN st.pendingUpdates
    THEN [st EXCEPT !.items[st.pendingUpdates[a]].credit_amount = @ + t.amount]
    ELSE [items |-> Append(st.items, UpdateItem(a, 0, t.amount)),
          pendingUpdates |-> MapSet(st.pendingUpdates, a, Len(st.items) + 1)]

\* A forEach callback that looks both accounts up in pendingUpdates before
\* it handles either (as the earlier variant of the function did).
ProcessTransferLookupsFirst(st, t) ==
    LET withPut == [st EXCEPT !.items = Append(@, PutItem(t))]
        creditAccountPendingTx == t.credit_account_id \in DOMAIN st.pendingUpdates
        debited == ApplyDebit(withPut, t)
    IN IF creditAccountPendingTx
       THEN ApplyCredit(debited, t)
       ELSE [items |-> Append(debited.items, UpdateItem(t.credit_account_id, 0, t.amount)),
             pendingUpdates |-> MapSet(debited.pendingUpdates, t.credit_account_id,
                                       Len(debited.items) + 1)]

\* A forEach callback that leaves out the credit half.
ProcessTransferDebitOnly(st, t) ==
    ApplyDebit([st EXCEPT !.items = Append(@, PutItem(t))], t)

\* One pass of the forEach callback for transfer t.
ProcessTransfer(st, t) ==
    ApplyCredit(ApplyDebit([st EXCEPT !.items = Append(@, PutItem(t))], t), t)

\* batch.forEach from the k-th transfer on.  The test of st.items has st
\* evaluated at every pass, which keeps the evaluation of a long batch flat.
RECURSIVE ForEachTransfer(_, _, _)
ForEachTransfer(b, k, st) ==
    IF k > Len(b) \/ Len(st.items) < 0 THEN st
    ELSE ForEachTransfer(b, k + 1, ProcessTransfer(st, b[k]))

\* items as they stand when the TransactWriteCommand is built.
BuildItems(b) == ForEachTransfer(b, 1, [items |-> <<>>, pendingUpdates |-> <<>>]).items

(***************************************************************************)
(* Actions of the write builder.                                           *)
(***************************************************************************)
\* The table as the integration test sets it up, for the first account only:
\* createAccount puts ledger and the four balances (timestamp is undefined and
\* dropped by removeUndefinedValues); the other accounts have no item yet.
CreatedAccount ==
    [ledger |-> 700, debits_pending |-> 0, debits_posted |-> 0,
     credits_pending |-> 0, credits_posted |-> 0]

InitBatch ==
    /\ txpc = "idle"
    /\ batch = <<>>
    /\ items = <<>>
    /\ strategy = "noRetry" /\ attemptNumber = 0 /\ delay = 0 /\ nextToken = 1
    /\ outcome = <<>> /\ calls = 0 /\ errors = <<>>
    /\ globalWriteCounter = 0 /\ conflictsRetryAttempts = 0
    /\ accounts = [a \in {1} |-> CreatedAccount]
    /\ transfers = {}
    /\ sinkTokens = {}
    /\ received = <<>>
    /\ accountsBefore = [a \in {1} |-> CreatedAccount]
    /\ transfersBefore = {}
    /\ lastWritten = <<>>
    /\ rpc = [r \in Requests |-> "idle"]
    /\ rattempt = [r \in Requests |-> 0]
    /\ startTime = [r \in Requests |-> 0]
    /\ attemptStart = [r \in Requests |-> 0]
    /\ retryAt = [r \in Requests |-> 0]
    /\ clock = 1
    /\ conflictsRetryDelay = 0
    /\ failedAt = [r \in Requests |-> 0]
    /\ observedDelay = 0

\* createTransfersBatch(documentClient, tableName, b): builds items and sends
\* them in one TransactWriteCommand.
CreateTransfersBatch ==
    /\ txpc = "idle"
    /\ \E n \in 0..MaxBatch : \E f \in [1..n -> TransferChoices] :
        /\ batch' = BatchOf(n, f)
        /\ items' = BuildItems(BatchOf(n, f))
    /\ txpc' = "sent"
    /\ UNCHANGED <<storevars, delayvars, drvvars>>

\* The call returns (its locals are gone); the caller may call again.
CreateTransfersReturn ==
    /\ txpc = "sent"
    /\ txpc' = "idle"
    /\ batch' = <<>>
    /\ items' = <<>>
    /\ UNCHANGED <<storevars, delayvars, drvvars>>

(***************************************************************************)
(* The table behind documentClient.  A TransactWriteCommand is applied as  *)
(* a whole or not at all; a Put with attribute_not_exists(pk) needs the    *)
(* key to be free; ADD counts a missing attribute as 0 and creates a       *)
(* missing item; a ClientRequestToken the table retains is answered        *)
(* without being applied again.                                            *)
(***************************************************************************)
Min(a, b) == IF a <= b THEN a ELSE b

Command(token, its) == [ClientRequestToken |-> token, TransactItems |-> its]

\* The command in flight: the latest one created.
InFlight == received[Len(received)]

ItemOf(accts, a) == IF a \in DOMAIN accts THEN accts[a] ELSE <<>>

AddTo(item, attr, v) ==
    [x \in (DOMAIN item) \cup {attr} |->
        IF x = attr THEN (IF attr \in DOMAIN item THEN item[attr] ELSE 0) + v ELSE item[x]]

\* UpdateExpression "ADD debits_posted :debit_amount, credits_posted :credit_amount".
ApplyUpdate(accts, u) ==
    LET a == u.pk[2]
        item == AddTo(AddTo(ItemOf(accts, a), "debits_posted", u.debit_amount),
                      "credits_posted", u.credit_amount)
    IN [x \in (DOMAIN accts) \cup {a} |-> IF x = a THEN item ELSE accts[x]]

\* A Put replaces whatever item has its key.
ApplyPut(trs, p) == { t \in trs : t.id # p.item.id } \cup {p.item}

ApplyItem(tbl, it) ==
    IF it.op = "Put"
    THEN [tbl EXCEPT !.transfers = ApplyPut(@, it)]
    ELSE [tbl EXCEPT !.accounts = ApplyUpdate(@, it)]

RECURSIVE ApplyItems(_, _, _)
ApplyItems(its, k, tbl) ==
    IF k > Len(its) \/ Cardinality(tbl.transfers) < 0 THEN tbl
    ELSE ApplyItems(its, k + 1, ApplyItem(tbl, its[k]))

\* The conditions of the command's items, on the table as it stands.
ConditionHolds(it, trs) ==
    (it.op = "Put" /\ it.ConditionExpression = "attribute_not_exists(pk)")
        => ~(\E t \in trs : t.id = it.item.id)
ConditionsHold(its, trs) == \A i \in DOMAIN its : ConditionHolds(its[i], trs)

(***************************************************************************)
(* The retry strategies.  noRetry calls fn once.  The workload's strategy  *)
(* hands fn to p-retry, which calls it again after every rejection until   *)
(* 1 + retries attempts have been made, waiting one of the timeouts of the *)
(* retry package in between: Math.min(Math.round(random * minTimeout *     *)
(* factor^i), maxTimeout) with random = 1 + Math.random() when randomize.  *)
(***************************************************************************)
\* The workload's retries with the timeouts the package takes when none
\* are given.
RetryOptionsDefaultTimeouts ==
    [retries |-> 3, minTimeout |-> 1000, factorTenths |-> 20, randomize |-> TRUE,
     maxTimeout |-> 1000000]

RetryOptions ==
    [retries |-> 3, minTimeout |-> 20, factorTenths |-> 12, randomize |-> TRUE,
     maxTimeout |-> 60]

\* 1 + Math.random(), in tenths: 1.0 and the bound 2.0, which a random just
\* below it rounds to.
JitterTenths == {10, 20}

RECURSIVE Pow(_, _)
Pow(b, e) == IF e = 0 THEN 1 ELSE b * Pow(b, e - 1)

\* Math.round of num / den.
RoundDiv(num, den) == (2 * num + den) \div (2 * den)

CreateTimeout(i, randomTenths, opts) ==
    Min(RoundDiv(randomTenths * opts.minTimeout * Pow(opts.factorTenths, i), 10 * Pow(10, i)),
        opts.maxTimeout)

\* The timeouts an operation may hold (the package draws them all when the
\* operation is created and uses them in ascending order).
Timeouts(opts) ==
    { CreateTimeout(i, j, opts) :
        i \in 0..(opts.retries - 1),
        j \in (IF opts.randomize THEN JitterTenths ELSE {10}) }

\* retries taken for the number of attempts.
MaxAttemptsRetriesOnly(strat) == IF strat = "pRetry" THEN RetryOptions.retries ELSE 1

MaxAttempts(strat) == IF strat = "pRetry" THEN 1 + RetryOptions.retries ELSE 1

(***************************************************************************)
(* createTransfersBatch against the table, called directly (noRetry) or    *)
(* by CreateTransfersLoadTest.request (the p-retry strategy), which the    *)
(* driver awaits inside the try block of its loop.                         *)
(***************************************************************************)
MaxCalls == 2
MaxWrite == 2
IdBases == {0, 1}

\* A batch of n transfers with the ids base+1 .. base+n between the accounts
\* g chooses, the k-th of amount k.
BatchFrom(base, n, g) == [k \in 1..n |-> TransferAt(base + k, g[k][1], g[k][2], k)]

\* A result that reports the length of the batch as itemsWritten.
ReturnedBatchLength(n) ==
    [threw |-> FALSE, overallResult |-> "OK", itemsWritten |-> Len(batch), name |-> ""]

\* What the caller has when the call is over.
Returned(n) == [threw |-> FALSE, overallResult |-> "OK", itemsWritten |-> n, name |-> ""]

\* The first of the rejections.
RejectionReasonFirst(errs) == errs[1]

\* The reason a strategy rejects with once its attempts are used up: the
\* rejection of the last attempt.
RejectionReason(errs) == errs[Len(errs)]

Thrown(kind) == [threw |-> TRUE, overallResult |-> "", itemsWritten |-> 0, name |-> kind]

\* What the driver's loop does not touch in its try { await performIteration();
\* requestCount += requestsPerIteration } catch { errorIterations += 1 }.
tryrest == <<cfgvars, iterationCount, missedIterations, workerRunTime, workerBackoffTime,
             workerBehindScheduleTime, histograms, runvars, report, workervars, spyvars,
             tallyvars, now, ghostvars>>

\* A command whose token was drawn once, when the module was loaded.
SendWriteConstantToken(its) ==
    /\ received' = Append(received, Command(1, its))
    /\ nextToken' = nextToken + 1

\* new TransactWriteCommand({ ClientRequestToken: randomUUID(), TransactItems: items })
\* handed to documentClient.send.
SendWrite(its) ==
    /\ received' = Append(received, Command(nextToken, its))
    /\ nextToken' = nextToken + 1

\* The length the earlier variant of createTransfersBatch allowed a batch.
BatchSizeLimit == 33

\* The earlier variant: a batch longer than BatchSizeLimit throws "Assertion
\* error: Batch size too large" before anything is built or sent.
CallCreateTransfersChecked(strat, b) ==
    /\ txpc = "idle"
    /\ calls < MaxCalls
    /\ calls' = calls + 1
    /\ batch' = b
    /\ strategy' = strat
    /\ delay' = 0
    /\ errors' = <<>>
    /\ accountsBefore' = accounts
    /\ transfersBefore' = transfers
    /\ IF Len(b) > BatchSizeLimit
       THEN /\ items' = <<>>
            /\ attemptNumber' = 0
            /\ outcome' = <<Thrown("Error")>>
            /\ txpc' = "idle"
            /\ UNCHANGED <<received, nextToken>>
       ELSE /\ items' = BuildItems(b)
            /\ attemptNumber' = 1
            /\ outcome' = <<>>
            /\ SendWrite(BuildItems(b))
            /\ txpc' = "sent"
    /\ UNCHANGED <<loadvars, accounts, transfers, sinkTokens, lastWritten, delayvars, drvvars>>

\* createTransfersBatch(documentClient, tableName, b, retry) up to its first
\* await: items are built, retry calls fn and fn sends the first command.
CallCreateTransfers(strat, b) ==
    /\ txpc = "idle"
    /\ calls < MaxCalls
    /\ calls' = calls + 1
    /\ batch' = b
    /\ items' = BuildItems(b)
    /\ strategy' = strat
    /\ attemptNumber' = 1
    /\ delay' = 0
    /\ outcome' = <<>>
    /\ errors' = <<>>
    /\ SendWrite(BuildItems(b))
    /\ txpc' = "sent"
    /\ accountsBefore' = accounts
    /\ transfersBefore' = transfers
    /\ UNCHANGED <<loadvars, accounts, transfers, sinkTokens, lastWritten, delayvars, drvvars>>

\* The table accepts the command in flight; fn returns its result, the
\* strategy resolves with it and so does createTransfersBatch; request() adds
\* itemsWritten to its counter and the driver counts the requests.
WriteAccepted ==
    /\ txpc = "sent"
    /\ InFlight.ClientRequestToken \in sinkTokens
          \/ ConditionsHold(InFlight.TransactItems, transfers)
    /\ LET tbl == IF InFlight.ClientRequestToken \in sinkTokens
                  THEN [accounts |-> accounts, transfers |-> transfers]
                  ELSE ApplyItems(InFlight.TransactItems, 1,
                                  [accounts |-> accounts, transfers |-> transfers])
       IN /\ accounts' = tbl.accounts
          /\ transfers' = tbl.transfers
    /\ sinkTokens' = sinkTokens \cup {InFlight.ClientRequestToken}
    /\ outcome' = <<Returned(Len(items))>>
    /\ errors' = <<>>
    /\ lastWritten' = <<batch>>
    /\ txpc' = "idle"
    /\ IF strategy = "pRetry"
       THEN /\ globalWriteCounter' = globalWriteCounter + Len(items)
            /\ requestCount' = requestCount + requestsPerIteration
       ELSE UNCHANGED <<globalWriteCounter, requestCount>>
    /\ UNCHANGED <<batch, items, strategy, attemptNumber, delay, nextToken, calls,
                   conflictsRetryAttempts, received, accountsBefore, transfersBefore,
                   errorIterations, delayvars, tryrest>>

\* A count of the attempts made when one fails: the failed one and the next.
OnFailedAttemptCountsNext(retryAttempts) == retryAttempts + 2

\* onFailedAttempt: this._conflicts_retryAttempts += 1.
OnFailedAttempt(retryAttempts) == retryAttempts + 1

\* The ways the table rejects the command in flight.
Rejections ==
    {"TransactionConflict"}
        \cup (IF InFlight.ClientRequestToken \notin sinkTokens
                 /\ ~ConditionsHold(InFlight.TransactItems, transfers)
              THEN {"ConditionalCheckFailed"} ELSE {})
        \cup (IF InFlight.TransactItems = <<>> THEN {"ValidationException"} ELSE {})

\* The table rejects the command in flight and nothing is written.  noRetry
\* lets the rejection through.  p-retry calls onFailedAttempt and then either
\* waits for its next timeout or, the attempts used up, rejects with the
\* error; request() rethrows it and the driver counts an error iteration.
WriteRejected(kind) ==
    /\ txpc = "sent"
    /\ kind \in Rejections
    /\ conflictsRetryAttempts' =
          IF strategy = "pRetry" THEN OnFailedAttempt(conflictsRetryAttempts)
                                 ELSE conflictsRetryAttempts
    /\ IF attemptNumber < MaxAttempts(strategy)
       THEN /\ txpc' = "delay"
            /\ delay' \in Timeouts(RetryOptions)
            /\ errors' = Append(errors, kind)
            /\ UNCHANGED <<outcome, errorIterations>>
       ELSE /\ txpc' = "idle"
            /\ delay' = 0
            /\ errors' = Append(errors, kind)
            /\ outcome' = <<Thrown(RejectionReason(Append(errors, kind)))>>
            /\ errorIterations' =
                  IF strategy = "pRetry" THEN errorIterations + 1 ELSE errorIterations
    /\ UNCHANGED <<batch, items, strategy, attemptNumber, nextToken, calls, globalWriteCounter,
                   sinkvars, beforevars, requestCount, delayvars, tryrest>>

\* The table commits the command in flight but the client gets no response
\* within its requestTimeout: documentClient.send rejects with a
\* TimeoutError although the items are written.  The strategy treats the
\* rejection like any other.
ResponseLost ==
    /\ txpc = "sent"
    /\ InFlight.ClientRequestToken \in sinkTokens
          \/ ConditionsHold(InFlight.TransactItems, transfers)
    /\ LET tbl == IF InFlight.ClientRequestToken \in sinkTokens
                  THEN [accounts |-> accounts, transfers |-> transfers]
                  ELSE ApplyItems(InFlight.TransactItems, 1,
                                  [accounts |-> accounts, transfers |-> transfers])
       IN /\ accounts' = tbl.accounts
          /\ transfers' = tbl.transfers
    /\ sinkTokens' = sinkTokens \cup {InFlight.ClientRequestToken}
    /\ lastWritten' = <<batch>>
    /\ conflictsRetryAttempts' =
          IF strategy = "pRetry" THEN OnFailedAttempt(conflictsRetryAttempts)
                                 ELSE conflictsRetryAttempts
    /\ errors' = Append(errors, "TimeoutError")
    /\ IF attemptNumber < MaxAttempts(strategy)
       THEN /\ txpc' = "delay"
            /\ delay' \in Timeouts(RetryOptions)
            /\ UNCHANGED <<outcome, errorIterations>>
       ELSE /\ txpc' = "idle"
            /\ delay' = 0
            /\ outcome' = <<Thrown(RejectionReason(Append(errors, "TimeoutError")))>>
            /\ errorIterations' =
                  IF strategy = "pRetry" THEN errorIterations + 1 ELSE errorIterations
    /\ UNCHANGED <<batch, items, strategy, attemptNumber, nextToken, calls, globalWriteCounter,
                   received, accountsBefore, transfersBefore, requestCount, delayvars, tryrest>>

\* A retry that leaves the first item out of the new command.
RetryAttemptWithoutFirstItem ==
    /\ txpc = "delay"
    /\ attemptNumber' = attemptNumber + 1
    /\ delay' = 0
    /\ SendWrite(IF items = <<>> THEN items ELSE Tail(items))
    /\ txpc' = "sent"
    /\ UNCHANGED <<batch, items, strategy, outcome, calls, errors, loadvars, accounts,
                   transfers, sinkTokens, beforevars, delayvars, drvvars>>

\* The timeout is over: p-retry calls fn again, which sends a new command
\* with the same items.
RetryAttempt ==
    /\ txpc = "delay"
    /\ attemptNumber' = attemptNumber + 1
    /\ delay' = 0
    /\ SendWrite(items)
    /\ txpc' = "sent"
    /\ UNCHANGED <<batch, items, strategy, outcome, calls, errors, loadvars, accounts,
                   transfers, sinkTokens, beforevars, delayvars, drvvars>>

(***************************************************************************)
(* The retry strategy's bookkeeping of delays, for requests that run at    *)
(* once on one workload object (one per worker of the driver).  Each call  *)
(* of retryStrategy has its own startTime; _conflicts_retryDelay and       *)
(* _conflicts_retryAttempts are fields of the workload.  The clock counts  *)
(* ticks of TickMs and starts above 0, as performance.now() does.          *)
(***************************************************************************)
TickMs == 20
MaxLateTicks == 1
MaxAttemptTicks == 1

\* p-retry's timeouts in ticks.
TimeoutTicks == { t \div TickMs : t \in Timeouts(RetryOptions) }

\* A startTime declared outside the strategy, one for all calls (read here
\* as the first request's).
StartTimeOfFirstCall(st, r) == st[1]

\* startTime as the wrapper of request r reads it: the let of its own call.
StartTimeOf(st, r) == st[r]

reststore == <<txpc, batch, items, retryvars, globalWriteCounter, sinkvars, beforevars, drvvars>>

\* request() calls createTransfersBatch, which calls retryStrategy(fn):
\* startTime = 0, p-retry calls the wrapper, which adds nothing and calls fn.
RequestStart(r) ==
    /\ rpc[r] = "idle"
    /\ rpc' = [rpc EXCEPT ![r] = "attempt"]
    /\ rattempt' = [rattempt EXCEPT ![r] = 1]
    /\ startTime' = [startTime EXCEPT ![r] = 0]
    /\ attemptStart' = [attemptStart EXCEPT ![r] = clock]
    /\ UNCHANGED <<retryAt, clock, conflictsRetryDelay, failedAt, observedDelay,
                   conflictsRetryAttempts, reststore>>

\* fn rejects: onFailedAttempt counts the attempt and sets startTime; p-retry
\* starts its timer, or rejects when the attempts are used up.
AttemptFailed(r) ==
    /\ rpc[r] = "attempt"
    /\ conflictsRetryAttempts' = OnFailedAttempt(conflictsRetryAttempts)
    /\ startTime' = [startTime EXCEPT ![r] = clock]
    /\ failedAt' = [failedAt EXCEPT ![r] = clock]
    /\ IF rattempt[r] < MaxAttempts("pRetry")
       THEN /\ rpc' = [rpc EXCEPT ![r] = "wait"]
            /\ \E d \in TimeoutTicks : retryAt' = [retryAt EXCEPT ![r] = clock + d]
       ELSE /\ rpc' = [rpc EXCEPT ![r] = "failed"]
            /\ UNCHANGED retryAt
    /\ UNCHANGED <<rattempt, attemptStart, clock, conflictsRetryDelay, observedDelay, reststore>>

\* fn resolves and so does the strategy.
AttemptSucceeded(r) ==
    /\ rpc[r] = "attempt"
    /\ rpc' = [rpc EXCEPT ![r] = "done"]
    /\ UNCHANGED <<rattempt, startTime, attemptStart, retryAt, clock, conflictsRetryDelay,
                   failedAt, observedDelay, conflictsRetryAttempts, reststore>>

\* The timer fires: the wrapper adds performance.now() - startTime to
\* _conflicts_retryDelay if startTime != 0, and calls fn again.
NextAttempt(r) ==
    /\ rpc[r] = "wait"
    /\ clock >= retryAt[r]
    /\ conflictsRetryDelay' =
          IF StartTimeOf(startTime, r) # 0
          THEN conflictsRetryDelay + (clock - StartTimeOf(startTime, r))
          ELSE conflictsRetryDelay
    /\ observedDelay' = observedDelay + (clock - failedAt[r])
    /\ rpc' = [rpc EXCEPT ![r] = "attempt"]
    /\ rattempt' = [rattempt EXCEPT ![r] = rattempt[r] + 1]
    /\ attemptStart' = [attemptStart EXCEPT ![r] = clock]
    /\ UNCHANGED <<startTime, retryAt, clock, failedAt, conflictsRetryAttempts, reststore>>

\* A tick of the clock: no timer is more than MaxLateTicks late and no
\* attempt takes more than MaxAttemptTicks.
ClockTick ==
    /\ \E r \in Requests : rpc[r] \in {"attempt", "wait"}
    /\ \A r \in Requests :
          /\ rpc[r] = "wait" => clock < retryAt[r] + MaxLateTicks
          /\ rpc[r] = "attempt" => clock < attemptStart[r] + MaxAttemptTicks
    /\ clock' = clock + 1
    /\ UNCHANGED <<rpc, rattempt, startTime, attemptStart, retryAt, conflictsRetryDelay,
                   failedAt, observedDelay, conflictsRetryAttempts, reststore>>

(***************************************************************************)
(* LoadTestDriver.  Every time value is a fixed-point number of           *)
(* milliseconds with one decimal: the integer n stands for n/10 ms (the    *)
(* warmup is a tenth of the duration).  The clock, performance.now()       *)
(* counted from the moment run() reads startTime, advances a millisecond   *)
(* at a time.  Code between two awaits runs at one reading of the clock;   *)
(* every await of performIteration spans one of ServiceTimesMs, and a      *)
(* sleep returns at its due time or up to MaxLateMs after it.              *)
(***************************************************************************)
Concurrency == 2
MaxLateMs == 1
TargetRates == {0, 1000}
DurationsMs == {3}
TimeoutValuesMs == {3}
ServiceTimesMs == {1, 3, 5}

\* ms as a fixed-point number.
Fixed(ms) == ms * 10

Workers == 1..Concurrency

\* The opts of the constructor and what test.requestsPerIteration() returns.
\* durationMs stands for opts.durationSeconds * 1_000; timeoutValueMs is <<>>
\* when the option is not given.
Options ==
    [targetRequestRatePerSecond : TargetRates,
     durationMs : { Fixed(d) : d \in DurationsMs },
     timeoutValueMs : {<<>>} \cup { <<Fixed(t)>> : t \in TimeoutValuesMs },
     skipWarmup : {FALSE}, requestsPerIteration : {1}]

\* The await of performIteration begun at `since` may settle now.
MaySettle(since) == \E d \in ServiceTimesMs : now - since = Fixed(d)
\* It must settle before the clock goes on.
MustSettle(since) == \A d \in ServiceTimesMs : now - since >= Fixed(d)

\* (1000 * concurrency) / (targetRps / requestsPerIteration); a division by 0
\* gives Infinity in the code.
WorkerCycleTimeMs(conc, rps, rpi) ==
    IF rps = 0 THEN "Infinity" ELSE (Fixed(1000) * conc * rpi) \div rps

\* Math.round(ms * 1000) of a fixed-point number of milliseconds.
Micros(ms) == ms * 100

\* The earlier loop: a duration that rounds to 0 microseconds is not recorded.
recordDurationDropsZero(histogram, iterationDurationMicros) ==
    IF iterationDurationMicros > 0
    THEN histogram (+) SetToBag({iterationDurationMicros})
    ELSE histogram

recordDuration(histogram, iterationDurationMicros) ==
    IF iterationDurationMicros > 0
    THEN histogram (+) SetToBag({iterationDurationMicros})
    ELSE histogram (+) SetToBag({1})

InitDriver(opts) ==
    /\ targetRps = opts.targetRequestRatePerSecond
    /\ overallDurationMs = opts.durationMs
    /\ requestsPerIteration = opts.requestsPerIteration
    /\ workerCycleTimeMs =
          WorkerCycleTimeMs(Concurrency, opts.targetRequestRatePerSecond, opts.requestsPerIteration)
    /\ warmupDurationMs = IF opts.skipWarmup THEN 0 ELSE Min(opts.durationMs \div 10, Fixed(10000))
    /\ timeoutValueMs =
          IF opts.timeoutValueMs = <<>>
          THEN WorkerCycleTimeMs(Concurrency, opts.targetRequestRatePerSecond, opts.requestsPerIteration)
          ELSE opts.timeoutValueMs[1]
    /\ benchmarkDurationMs =
          opts.durationMs - (IF opts.skipWarmup THEN 0 ELSE Min(opts.durationMs \div 10, Fixed(10000)))
    /\ iterationCount = 0 /\ requestCount = 0 /\ errorIterations = 0 /\ missedIterations = 0
    /\ workerRunTime = 0 /\ workerBackoffTime = 0 /\ workerBehindScheduleTime = 0
    /\ requestLatencyMicros = EmptyBag
    /\ serviceTimeMicros = EmptyBag
    /\ runpc = "new" /\ runResult = "none" /\ warmupEndTime = 0 /\ endTime = 0
    /\ wpc = [w \in Workers |-> "idle"]
    /\ iterationStart = [w \in Workers |-> 0]
    /\ requestStart = [w \in Workers |-> 0]
    /\ wakeAt = [w \in Workers |-> 0]
    /\ setupCalls = 0 /\ teardownCalls = 0 /\ performCalls = 0 /\ performFailures = 0
    /\ measuredCalls = 0 /\ measuredFailures = 0
    /\ report = <<>>
    /\ now = 0
    /\ lastIntended = [w \in Workers |-> 0 - 1]
    /\ arrivalsTaken = 0

\* ---- what a worker does between two awaits ----

\* An iterationStart declared outside concurrentWorkerLoop, one variable
\* shared by all the workers.
StartIterationShared(w, phase, istart) ==
    /\ wpc' = [wpc EXCEPT ![w] = phase]
    /\ iterationStart' = [v \in Workers |-> istart]
    /\ requestStart' = [requestStart EXCEPT ![w] = now]
    /\ wakeAt' = [wakeAt EXCEPT ![w] = 0]
    /\ performCalls' = performCalls + 1

\* The worker calls test.performIteration() and awaits it.
StartIteration(w, phase, istart) ==
    /\ wpc' = [wpc EXCEPT ![w] = phase]
    /\ iterationStart' = [iterationStart EXCEPT ![w] = istart]
    /\ requestStart' = [requestStart EXCEPT ![w] = now]
    /\ wakeAt' = [wakeAt EXCEPT ![w] = 0]
    /\ performCalls' = performCalls + 1

\* The worker awaits sleep(until - now).
Sleep(w, phase, until) ==
    /\ wpc' = [wpc EXCEPT ![w] = phase]
    /\ wakeAt' = [wakeAt EXCEPT ![w] = until]
    /\ requestStart' = [requestStart EXCEPT ![w] = 0]
    /\ UNCHANGED <<iterationStart, performCalls>>

\* concurrentWorkerLoop returns.
Finish(w) ==
    /\ wpc' = [wpc EXCEPT ![w] = "finished"]
    /\ iterationStart' = [iterationStart EXCEPT ![w] = 0]
    /\ requestStart' = [requestStart EXCEPT ![w] = 0]
    /\ wakeAt' = [wakeAt EXCEPT ![w] = 0]
    /\ UNCHANGED performCalls

\* Bookkeeping: the worker begins a measured iteration with intended start
\* istart (begun), having skipped `skipped` intended starts as missed.
Account(w, begun, istart, skipped) ==
    /\ arrivalsTaken' =
          arrivalsTaken + skipped + (IF begun /\ istart # lastIntended[w] THEN 1 ELSE 0)
    /\ lastIntended' = IF begun THEN [lastIntended EXCEPT ![w] = istart] ELSE lastIntended

\* while (iterationStart < endTime) of the measurement loop.
MeasureLoopTest(w, istart, skipped) ==
    IF istart < endTime
    THEN StartIteration(w, "measure", istart) /\ Account(w, TRUE, istart, skipped)
    ELSE Finish(w) /\ Account(w, FALSE, istart, skipped)

\* A measurement loop that tests before its first pass (while instead of
\* do ... while).
WarmupLoopTestWhile(w) ==
    IF now < warmupEndTime
    THEN StartIteration(w, "warmup", now) /\ UNCHANGED ghostvars
    ELSE MeasureLoopTest(w, now, 0)

\* A warmup loop whose test never fails (while (true)).
WarmupLoopTestForever(w) == StartIteration(w, "warmup", now) /\ UNCHANGED ghostvars

\* doWarmup's loop test, and on its exit the first pass of the measurement loop
\* (let iterationStart = performance.now(); do { requestStart = ... ).
WarmupLoopTest(w) ==
    IF now < warmupEndTime
    THEN StartIteration(w, "warmup", now) /\ UNCHANGED ghostvars
    ELSE StartIteration(w, "measure", now) /\ Account(w, TRUE, now, 0)

\* A run() that starts the workers without awaiting setup().
RunStartNoAwait ==
    /\ runpc = "new"
    /\ IF targetRps = 0
       THEN /\ runpc' = "returned"
            /\ runResult' = "undefined"
            /\ UNCHANGED <<setupCalls, warmupEndTime, endTime, workervars>>
       ELSE /\ runpc' = "setup"
            /\ setupCalls' = setupCalls + 1
            /\ warmupEndTime' = now + warmupDurationMs
            /\ endTime' = now + overallDurationMs + workerCycleTimeMs
            /\ wakeAt' = [w \in Workers |-> now]
            /\ wpc' = [w \in Workers |-> "jitter"]
            /\ UNCHANGED <<runResult, iterationStart, requestStart>>
    /\ UNCHANGED <<txvars, report, tallyvars, cfgvars, counters, histograms,
                   teardownCalls, performCalls, performFailures, now, ghostvars>>

\* A run() without the early return on a target rate of 0.
RunStartNoRateCheck ==
    /\ runpc = "new"
    /\ runpc' = "setup"
    /\ setupCalls' = setupCalls + 1
    /\ UNCHANGED <<txvars, report, tallyvars, cfgvars, counters, histograms, runResult, warmupEndTime, endTime,
                   workervars, teardownCalls, performCalls, performFailures, now, ghostvars>>

\* A run() that goes through stop() at a target rate of 0, so that it returns
\* a report of zero counters.
RunStartStopsAtZeroRate ==
    /\ runpc = "new"
    /\ IF targetRps = 0
       THEN /\ runpc' = "teardown"
            /\ teardownCalls' = teardownCalls + 1
            /\ UNCHANGED setupCalls
       ELSE /\ runpc' = "setup"
            /\ setupCalls' = setupCalls + 1
            /\ UNCHANGED teardownCalls
    /\ UNCHANGED <<txvars, report, tallyvars, cfgvars, counters, histograms, runResult,
                   warmupEndTime, endTime, workervars, performCalls, performFailures, now,
                   ghostvars>>

\* ---- run() ----
RunStart ==
    /\ runpc = "new"
    /\ IF targetRps = 0
       THEN /\ runpc' = "returned"
            /\ runResult' = "undefined"
            /\ UNCHANGED setupCalls
       ELSE /\ runpc' = "setup"
            /\ setupCalls' = setupCalls + 1
            /\ UNCHANGED runResult
    /\ UNCHANGED <<txvars, report, tallyvars, cfgvars, counters, histograms, warmupEndTime, endTime,
                   workervars, teardownCalls, performCalls, performFailures, now, ghostvars>>

\* The same with endTime = startTime + overallDurationMs, without the extra
\* worker cycle.
SetupReturnEndsAtDuration ==
    /\ runpc = "setup"
    /\ runpc' = "workers"
    /\ warmupEndTime' = now + warmupDurationMs
    /\ endTime' = now + overallDurationMs
    /\ \E jitter \in [Workers -> { Fixed(j) : j \in 0..((workerCycleTimeMs - 1) \div Fixed(1)) }] :
          wakeAt' = [w \in Workers |-> now + jitter[w]]
    /\ wpc' = [w \in Workers |-> "jitter"]
    /\ UNCHANGED <<txvars, report, tallyvars, cfgvars, counters, histograms, runResult, iterationStart,
                   requestStart, spyvars, now, ghostvars>>

\* await this.test.setup() returns: the locals are set and every worker runs
\* up to its first await, the jitter sleep of Math.random() * workerCycleTimeMs.
SetupReturn ==
    /\ runpc = "setup"
    /\ runpc' = "workers"
    /\ warmupEndTime' = now + warmupDurationMs
    /\ endTime' = now + overallDurationMs + workerCycleTimeMs
    /\ \E jitter \in [Workers -> { Fixed(j) : j \in 0..((workerCycleTimeMs - 1) \div Fixed(1)) }] :
          wakeAt' = [w \in Workers |-> now + jitter[w]]
    /\ wpc' = [w \in Workers |-> "jitter"]
    /\ UNCHANGED <<txvars, report, tallyvars, cfgvars, counters, histograms, runResult, iterationStart,
                   requestStart, spyvars, now, ghostvars>>

\* await this.test.setup() throws: run() rejects with that error.
SetupFail ==
    /\ runpc = "setup"
    /\ runpc' = "failed"
    /\ runResult' = "setupError"
    /\ UNCHANGED <<txvars, report, tallyvars, cfgvars, counters, histograms, warmupEndTime, endTime,
                   workervars, spyvars, now, ghostvars>>

\* The jitter sleep is over: the worker enters doWarmup.
WakeJitter(w) ==
    /\ wpc[w] = "jitter"
    /\ now >= wakeAt[w]
    /\ WarmupLoopTest(w)
    /\ UNCHANGED <<txvars, report, tallyvars, cfgvars, counters, histograms, runvars, setupCalls,
                   teardownCalls, performFailures, now>>

\* A doWarmup that counts a rejected pass as an error iteration.
WarmupIterDoneCounting(w, ok) ==
    /\ wpc[w] = "warmup"
    /\ MaySettle(requestStart[w])
    /\ LET iterationDuration == now - iterationStart[w] IN
       IF iterationDuration < workerCycleTimeMs
       THEN /\ Sleep(w, "warmupSleep", now + (workerCycleTimeMs - iterationDuration))
            /\ UNCHANGED ghostvars
       ELSE WarmupLoopTest(w)
    /\ performFailures' = IF ok THEN performFailures ELSE performFailures + 1
    /\ errorIterations' = IF ok THEN errorIterations ELSE errorIterations + 1
    /\ UNCHANGED <<txvars, report, tallyvars, cfgvars, iterationCount, requestCount, missedIterations,
                   workerRunTime, workerBackoffTime, workerBehindScheduleTime,
                   histograms, runvars, setupCalls, teardownCalls, now>>

\* A doWarmup without the try/catch: a rejected pass rejects the worker's
\* promise, hence Promise.all and run().
WarmupIterDoneRethrows(w, ok) ==
    /\ wpc[w] = "warmup"
    /\ MaySettle(requestStart[w])
    /\ performFailures' = IF ok THEN performFailures ELSE performFailures + 1
    /\ IF ok
       THEN /\ LET iterationDuration == now - iterationStart[w] IN
               IF iterationDuration < workerCycleTimeMs
               THEN /\ Sleep(w, "warmupSleep", now + (workerCycleTimeMs - iterationDuration))
                    /\ UNCHANGED ghostvars
               ELSE WarmupLoopTest(w)
            /\ UNCHANGED runvars
       ELSE /\ Finish(w)
            /\ runpc' = "failed"
            /\ runResult' = "iterationError"
            /\ UNCHANGED <<warmupEndTime, endTime, ghostvars>>
    /\ UNCHANGED <<txvars, report, tallyvars, cfgvars, counters, histograms, setupCalls, teardownCalls, now>>

\* performIteration of a warmup pass settles, resolved (ok) or rejected.
WarmupIterDone(w, ok) ==
    /\ wpc[w] = "warmup"
    /\ MaySettle(requestStart[w])
    /\ LET iterationDuration == now - iterationStart[w] IN
       IF iterationDuration < workerCycleTimeMs
       THEN /\ Sleep(w, "warmupSleep", now + (workerCycleTimeMs - iterationDuration))
            /\ UNCHANGED ghostvars
       ELSE WarmupLoopTest(w)
    /\ performFailures' = IF ok THEN performFailures ELSE performFailures + 1
    /\ UNCHANGED <<txvars, report, tallyvars, cfgvars, counters, histograms, runvars, setupCalls,
                   teardownCalls, now>>

\* The sleep that pads a warmup pass is over.
WakeWarmupSleep(w) ==
    /\ wpc[w] = "warmupSleep"
    /\ now >= wakeAt[w]
    /\ WarmupLoopTest(w)
    /\ UNCHANGED <<txvars, report, tallyvars, cfgvars, counters, histograms, runvars, setupCalls,
                   teardownCalls, performFailures, now>>

\* Mode 1 of the code (commented out): how far behind the missed iteration is.
MissedLatencyMode1(missingValueMs) == Micros(missingValueMs)

\* Mode 2 of the code: the latency recorded for a missed iteration.
MissedLatencyMicros(missingValueMs) == Micros(timeoutValueMs)

\* The for loop over missingValueMs: the histogram after it, and its passes.
\* Missed iterations that leave no sample.
RecordMissedNothing(histogram, missingValueMs) == histogram

RECURSIVE RecordMissed(_, _)
RecordMissed(histogram, missingValueMs) ==
    IF missingValueMs >= workerCycleTimeMs
    THEN RecordMissed(recordDuration(histogram, MissedLatencyMicros(missingValueMs)),
                      missingValueMs - workerCycleTimeMs)
    ELSE histogram

\* The passes of a loop that goes on while missingValueMs is positive.
RECURSIVE MissedPassesWhilePositive(_)
MissedPassesWhilePositive(missingValueMs) ==
    IF missingValueMs > 0
    THEN 1 + MissedPassesWhilePositive(missingValueMs - workerCycleTimeMs)
    ELSE 0

RECURSIVE MissedPasses(_)
MissedPasses(missingValueMs) ==
    IF missingValueMs >= workerCycleTimeMs
    THEN 1 + MissedPasses(missingValueMs - workerCycleTimeMs)
    ELSE 0

\* The latency taken from the next intended start instead of this one.
IterationDurationFromNext(w) == now - (iterationStart[w] + workerCycleTimeMs)

\* iterationCompleted - iterationStart and iterationCompleted - requestStart.
IterationDurationMillis(w) == now - iterationStart[w]

\* The service time taken from the intended start (as the earlier variant of
\* the loop added iterationDurationMillis to workerRunTime).
ServiceTimeFromIterationStart(w) == now - iterationStart[w]

ServiceTimeMillis(w) == now - requestStart[w]

\* The same with workerRunTime += serviceTimeMillis moved into the try block,
\* after requestCount += requestsPerIteration.
MeasureIterDoneRunTimeOnSuccess(w, ok) ==
    /\ wpc[w] = "measure"
    /\ MaySettle(requestStart[w])
    /\ LET iterationCompleted == now
           nextIterationStartMillis == iterationStart[w] + workerCycleTimeMs
           backoffTimeMillis == nextIterationStartMillis - now
           behind == backoffTimeMillis <= 0 /\ (0 - backoffTimeMillis) > workerCycleTimeMs
           missingValueMs == IterationDurationMillis(w) - workerCycleTimeMs
           passes == IF behind THEN MissedPasses(missingValueMs) ELSE 0
       IN
       /\ requestCount' = IF ok THEN requestCount + requestsPerIteration ELSE requestCount
       /\ errorIterations' = IF ok THEN errorIterations ELSE errorIterations + 1
       /\ iterationCount' = iterationCount + 1
       /\ serviceTimeMicros' = recordDuration(serviceTimeMicros, Micros(ServiceTimeMillis(w)))
       /\ workerRunTime' = IF ok THEN workerRunTime + ServiceTimeMillis(w) ELSE workerRunTime
       /\ requestLatencyMicros' =
             LET h == recordDuration(requestLatencyMicros, Micros(IterationDurationMillis(w)))
             IN IF behind THEN RecordMissed(h, missingValueMs) ELSE h
       /\ missedIterations' = missedIterations + passes
       /\ IF backoffTimeMillis > 0
          THEN /\ workerBackoffTime' = workerBackoffTime + backoffTimeMillis
               /\ UNCHANGED workerBehindScheduleTime
               /\ Sleep(w, "backoff", now + backoffTimeMillis)
               /\ UNCHANGED ghostvars
          ELSE /\ workerBehindScheduleTime' = workerBehindScheduleTime + (0 - backoffTimeMillis)
               /\ UNCHANGED workerBackoffTime
               /\ MeasureLoopTest(w, IF behind THEN iterationCompleted ELSE iterationStart[w],
                                  passes)
    /\ performFailures' = IF ok THEN performFailures ELSE performFailures + 1
    /\ measuredCalls' = measuredCalls + 1
    /\ measuredFailures' = IF ok THEN measuredFailures ELSE measuredFailures + 1
    /\ UNCHANGED <<txvars, report, cfgvars, runvars, setupCalls, teardownCalls, now>>

\* The same with an iterationCount that was read before the await and is
\* written after it: the update is lost when another worker is in its call.
MeasureIterDoneLosesUpdate(w, ok) ==
    /\ wpc[w] = "measure"
    /\ MaySettle(requestStart[w])
    /\ LET iterationCompleted == now
           nextIterationStartMillis == iterationStart[w] + workerCycleTimeMs
           backoffTimeMillis == nextIterationStartMillis - now
           behind == backoffTimeMillis <= 0 /\ (0 - backoffTimeMillis) > workerCycleTimeMs
           missingValueMs == IterationDurationMillis(w) - workerCycleTimeMs
           passes == IF behind THEN MissedPasses(missingValueMs) ELSE 0
       IN
       /\ requestCount' = IF ok THEN requestCount + requestsPerIteration ELSE requestCount
       /\ errorIterations' = IF ok THEN errorIterations ELSE errorIterations + 1
       /\ iterationCount' = IF \E v \in Workers \ {w} : wpc[v] = "measure"
                            THEN iterationCount ELSE iterationCount + 1
       /\ serviceTimeMicros' = recordDuration(serviceTimeMicros, Micros(ServiceTimeMillis(w)))
       /\ workerRunTime' = workerRunTime + ServiceTimeMillis(w)
       /\ requestLatencyMicros' =
             LET h == recordDuration(requestLatencyMicros, Micros(IterationDurationMillis(w)))
             IN IF behind THEN RecordMissed(h, missingValueMs) ELSE h
       /\ missedIterations' = missedIterations + passes
       /\ IF backoffTimeMillis > 0
          THEN /\ workerBackoffTime' = workerBackoffTime + backoffTimeMillis
               /\ UNCHANGED workerBehindScheduleTime
               /\ Sleep(w, "backoff", now + backoffTimeMillis)
               /\ UNCHANGED ghostvars
          ELSE /\ workerBehindScheduleTime' = workerBehindScheduleTime + (0 - backoffTimeMillis)
               /\ UNCHANGED workerBackoffTime
               /\ MeasureLoopTest(w, IF behind THEN iterationCompleted ELSE iterationStart[w],
                                  passes)
    /\ performFailures' = IF ok THEN performFailures ELSE performFailures + 1
    /\ measuredCalls' = measuredCalls + 1
    /\ measuredFailures' = IF ok THEN measuredFailures ELSE measuredFailures + 1
    /\ UNCHANGED <<txvars, report, cfgvars, runvars, setupCalls, teardownCalls, now>>

\* performIteration of a measured pass settles: the rest of the loop body up
\* to the backoff sleep or, when behind schedule, through the loop test into
\* the next pass.
MeasureIterDone(w, ok) ==
    /\ wpc[w] = "measure"
    /\ MaySettle(requestStart[w])
    /\ LET iterationCompleted == now
           nextIterationStartMillis == iterationStart[w] + workerCycleTimeMs
           backoffTimeMillis == nextIterationStartMillis - now
           behind == backoffTimeMillis <= 0 /\ (0 - backoffTimeMillis) > workerCycleTimeMs
           missingValueMs == IterationDurationMillis(w) - workerCycleTimeMs
           passes == IF behind THEN MissedPasses(missingValueMs) ELSE 0
       IN
       /\ requestCount' = IF ok THEN requestCount + requestsPerIteration ELSE requestCount
       /\ errorIterations' = IF ok THEN errorIterations ELSE errorIterations + 1
       /\ iterationCount' = iterationCount + 1
       /\ serviceTimeMicros' = recordDuration(serviceTimeMicros, Micros(ServiceTimeMillis(w)))
       /\ workerRunTime' = workerRunTime + ServiceTimeMillis(w)
       /\ requestLatencyMicros' =
             LET h == recordDuration(requestLatencyMicros, Micros(IterationDurationMillis(w)))
             IN IF behind THEN RecordMissed(h, missingValueMs) ELSE h
       /\ missedIterations' = missedIterations + passes
       /\ IF backoffTimeMillis > 0
          THEN /\ workerBackoffTime' = workerBackoffTime + backoffTimeMillis
               /\ UNCHANGED workerBehindScheduleTime
               /\ Sleep(w, "backoff", now + backoffTimeMillis)
               /\ UNCHANGED ghostvars
          ELSE /\ workerBehindScheduleTime' = workerBehindScheduleTime + (0 - backoffTimeMillis)
               /\ UNCHANGED workerBackoffTime
               /\ MeasureLoopTest(w, IF behind THEN iterationCompleted ELSE iterationStart[w],
                                  passes)
    /\ performFailures' = IF ok THEN performFailures ELSE performFailures + 1
    /\ measuredCalls' = measuredCalls + 1
    /\ measuredFailures' = IF ok THEN measuredFailures ELSE measuredFailures + 1
    /\ UNCHANGED <<txvars, report, cfgvars, runvars, setupCalls, teardownCalls, now>>

\* The clock read again after the backoff sleep, in place of the intended
\* start.
IterationStartAfterBackoffFromNow(w) == now

\* iterationStart = nextIterationStartMillis after the backoff sleep.
IterationStartAfterBackoff(w) == iterationStart[w] + workerCycleTimeMs

\* The backoff sleep is over: the loop test and, if it passes, the next pass.
WakeBackoff(w) ==
    /\ wpc[w] = "backoff"
    /\ now >= wakeAt[w]
    /\ MeasureLoopTest(w, IterationStartAfterBackoff(w), 0)
    /\ UNCHANGED <<txvars, report, tallyvars, cfgvars, counters, histograms, runvars, setupCalls,
                   teardownCalls, performFailures, now>>

\* a / b of two numbers as the code computes it, kept as the pair: den = 0
\* stands for the NaN (0 / 0) or Infinity the division then gives.
Div(a, b) == [num |-> a, den |-> b]

\* What stop() publishes of a histogram, cut down to its least and its
\* largest sample (p0 and p100, in microseconds); <<>> stands for what an
\* empty histogram gives.
HistogramStats(histogram) ==
    LET samples == BagToSet(histogram) IN
    [p0 |-> IF samples = {} THEN <<>>
            ELSE <<CHOOSE v \in samples : \A u \in samples : v <= u>>,
     p100 |-> IF samples = {} THEN <<>>
              ELSE <<CHOOSE v \in samples : \A u \in samples : v >= u>>]

\* A report whose failedIterationsRatio leaves the missed iterations out of
\* the numerator.
StopReportErrorsOnly ==
    [iterations |-> iterationCount,
     requests |-> requestCount,
     errorIterations |-> errorIterations,
     missedIterations |-> missedIterations,
     failedIterationsRatio |-> Div(errorIterations, iterationCount + missedIterations),
     requestLatencyStatsMillis |-> HistogramStats(requestLatencyMicros),
     serviceTimeStatsMillis |-> HistogramStats(serviceTimeMicros),
     runTimeMillis |-> workerRunTime,
     backoffTimeMillis |-> workerBackoffTime]

\* The object stop() returns, with the fields the claims speak of
\* (runTimeMillis and backoffTimeMillis are those of workerUtilization).
StopReport ==
    [iterations |-> iterationCount,
     requests |-> requestCount,
     errorIterations |-> errorIterations,
     missedIterations |-> missedIterations,
     failedIterationsRatio |->
         Div(errorIterations + missedIterations, iterationCount + missedIterations),
     requestLatencyStatsMillis |-> HistogramStats(requestLatencyMicros),
     serviceTimeStatsMillis |-> HistogramStats(serviceTimeMicros),
     runTimeMillis |-> workerRunTime,
     backoffTimeMillis |-> workerBackoffTime]

\* A run() that goes on to stop() as soon as one worker is done (Promise.race).
AllWorkersDoneAny ==
    /\ runpc = "workers"
    /\ \E w \in Workers : wpc[w] = "finished"
    /\ runpc' = "teardown"
    /\ teardownCalls' = teardownCalls + 1
    /\ UNCHANGED <<txvars, report, tallyvars, cfgvars, counters, histograms, runResult, warmupEndTime, endTime,
                   workervars, setupCalls, performCalls, performFailures, now, ghostvars>>

\* await Promise.all(workers) resolves: stop() calls test.teardown().
AllWorkersDone ==
    /\ runpc = "workers"
    /\ \A w \in Workers : wpc[w] = "finished"
    /\ runpc' = "teardown"
    /\ teardownCalls' = teardownCalls + 1
    /\ UNCHANGED <<txvars, report, tallyvars, cfgvars, counters, histograms, runResult, warmupEndTime, endTime,
                   workervars, setupCalls, performCalls, performFailures, now, ghostvars>>

\* await this.test.teardown() settles: stop() returns the report, or rejects.
TeardownReturn(ok) ==
    /\ runpc = "teardown"
    /\ runpc' = IF ok THEN "returned" ELSE "failed"
    /\ runResult' = IF ok THEN "report" ELSE "teardownError"
    /\ report' = IF ok THEN <<StopReport>> ELSE <<>>
    /\ UNCHANGED <<txvars, tallyvars, cfgvars, counters, histograms, warmupEndTime, endTime,
                   workervars, spyvars, now, ghostvars>>

\* No step of a run is later than this: a pass of the measurement loop begins
\* less than two worker cycles (or the lateness of a timer) after an intended
\* start that is before endTime, and its call settles within the longest
\* service time.
ClockHorizon ==
    endTime + 2 * workerCycleTimeMs + Fixed(MaxLateMs) +
        Fixed(CHOOSE d \in ServiceTimesMs : \A e \in ServiceTimesMs : e <= d)

\* The clock advances by a millisecond while the workers run.
Tick ==
    /\ runpc = "workers"
    /\ now < ClockHorizon
    /\ \E w \in Workers : wpc[w] # "finished"
    /\ \A w \in Workers :
          /\ wpc[w] \in {"warmup", "measure"} => ~MustSettle(requestStart[w])
          /\ wpc[w] \in {"jitter", "warmupSleep", "backoff"} => now < wakeAt[w] + Fixed(MaxLateMs)
    /\ now' = now + Fixed(1)
    /\ UNCHANGED <<txvars, report, tallyvars, cfgvars, counters, histograms, runvars, workervars, spyvars,
                   ghostvars>>

(***************************************************************************)
(* The specifications.                                                     *)
(***************************************************************************)
\* The driver, for every choice of options; the write builder stays idle.
Init == InitBatch /\ \E opts \in Options : InitDriver(opts)

Next ==
    \/ RunStart
    \/ SetupReturn
    \/ SetupFail
    \/ \E w \in Workers : WakeJitter(w)
    \/ \E w \in Workers, ok \in BOOLEAN : WarmupIterDone(w, ok)
    \/ \E w \in Workers : WakeWarmupSleep(w)
    \/ \E w \in Workers, ok \in BOOLEAN : MeasureIterDone(w, ok)
    \/ \E w \in Workers : WakeBackoff(w)
    \/ AllWorkersDone
    \/ \E ok \in BOOLEAN : TeardownReturn(ok)
    \/ Tick

Spec == Init /\ [][Next]_vars

\* The same where whatever can happen next eventually does: the clock
\* advances, timers fire, and every setup, performIteration and teardown call
\* settles.
LiveDurationsMs == {2}
InitLive ==
    /\ InitBatch
    /\ \E r \in TargetRates, d \in LiveDurationsMs :
          InitDriver([targetRequestRatePerSecond |-> r, durationMs |-> Fixed(d),
                      timeoutValueMs |-> <<>>, skipWarmup |-> FALSE,
                      requestsPerIteration |-> 1])
SpecLive == InitLive /\ [][Next]_vars /\ WF_vars(Next)

\* ---- runs in a quiet environment ----
Sleeping(w) == wpc[w] \in {"jitter", "warmupSleep", "backoff"}
InCall(w) == wpc[w] \in {"warmup", "measure"}
Acts(w) == <<wpc[w], iterationStart[w], requestStart[w], wakeAt[w]>>' #
               <<wpc[w], iterationStart[w], requestStart[w], wakeAt[w]>>

\* Every sleep returns when it is due (setTimeout is never late).
TimersOnTime ==
    /\ \A w \in Workers : (Sleeping(w) /\ Acts(w)) => now = wakeAt[w]
    /\ now' # now => \A w \in Workers : Sleeping(w) => now < wakeAt[w]

\* Every performIteration call resolves.
CallsSucceed == performFailures' = performFailures

\* Every performIteration call takes less than one worker cycle.
CallsShort ==
    /\ \A w \in Workers : (InCall(w) /\ Acts(w)) => now - requestStart[w] < workerCycleTimeMs
    /\ now' # now => \A w \in Workers : InCall(w) => now' - requestStart[w] < workerCycleTimeMs

\* The driver at 1000 requests/s when every call resolves, however long it
\* takes: a run long enough for a worker to fall more than a cycle behind and
\* go on.
LongDurationsMs == {5}
InitLong ==
    /\ InitBatch
    /\ \E d \in LongDurationsMs :
          InitDriver([targetRequestRatePerSecond |-> 1000, durationMs |-> Fixed(d),
                      timeoutValueMs |-> <<>>, skipWarmup |-> FALSE,
                      requestsPerIteration |-> 1])
NextLong ==
    \/ RunStart /\ CallsSucceed
    \/ SetupReturn /\ CallsSucceed
    \/ SetupFail /\ CallsSucceed
    \/ \E w \in Workers : WakeJitter(w) /\ CallsSucceed
    \/ \E w \in Workers, ok \in BOOLEAN : WarmupIterDone(w, ok) /\ CallsSucceed
    \/ \E w \in Workers : WakeWarmupSleep(w) /\ CallsSucceed
    \/ \E w \in Workers, ok \in BOOLEAN : MeasureIterDone(w, ok) /\ CallsSucceed
    \/ \E w \in Workers : WakeBackoff(w) /\ CallsSucceed
    \/ AllWorkersDone /\ CallsSucceed
    \/ \E ok \in BOOLEAN : TeardownReturn(ok) /\ CallsSucceed
    \/ Tick /\ CallsSucceed
SpecLong == InitLong /\ [][NextLong]_vars

\* The driver at 1000 requests/s when timers are on time and every call
\* resolves in less than a worker cycle, over longer runs.
SteadyDurationsMs == {10, 100}
InitSteady ==
    /\ InitBatch
    /\ \E d \in SteadyDurationsMs :
          InitDriver([targetRequestRatePerSecond |-> 1000, durationMs |-> Fixed(d),
                      timeoutValueMs |-> <<>>, skipWarmup |-> FALSE,
                      requestsPerIteration |-> 1])
Steady == TimersOnTime /\ CallsSucceed /\ CallsShort
NextSteady ==
    \/ RunStart /\ Steady
    \/ SetupReturn /\ Steady
    \/ SetupFail /\ Steady
    \/ \E w \in Workers : WakeJitter(w) /\ Steady
    \/ \E w \in Workers, ok \in BOOLEAN : WarmupIterDone(w, ok) /\ Steady
    \/ \E w \in Workers : WakeWarmupSleep(w) /\ Steady
    \/ \E w \in Workers, ok \in BOOLEAN : MeasureIterDone(w, ok) /\ Steady
    \/ \E w \in Workers : WakeBackoff(w) /\ Steady
    \/ AllWorkersDone /\ Steady
    \/ \E ok \in BOOLEAN : TeardownReturn(ok) /\ Steady
    \/ Tick /\ Steady
SpecSteady == InitSteady /\ [][NextSteady]_vars

\* The write builder; the driver stays as constructed.
InitB ==
    /\ InitBatch
    /\ InitDriver([targetRequestRatePerSecond |-> 0, durationMs |-> Fixed(3), timeoutValueMs |-> <<>>,
                   skipWarmup |-> FALSE, requestsPerIteration |-> 1])

NextBatch == CreateTransfersBatch \/ CreateTransfersReturn

SpecBatch == InitB /\ [][NextBatch]_vars

\* Calls of createTransfersBatch against the table.
NextStore ==
    \/ \E strat \in {"noRetry", "pRetry"}, base \in IdBases, n \in 0..MaxWrite :
          \E g \in [1..n -> AccountIds \X AccountIds] :
              CallCreateTransfers(strat, BatchFrom(base, n, g))
    \/ WriteAccepted
    \/ \E kind \in {"TransactionConflict", "ConditionalCheckFailed", "ValidationException"} :
          WriteRejected(kind)
    \/ RetryAttempt

SpecStore == InitB /\ [][NextStore]_vars

\* The same over a connection that may lose the table's response.
NextLossy ==
    \/ \E strat \in {"noRetry", "pRetry"}, base \in IdBases, n \in 0..MaxWrite :
          \E g \in [1..n -> AccountIds \X AccountIds] :
              CallCreateTransfers(strat, BatchFrom(base, n, g))
    \/ WriteAccepted
    \/ \E kind \in {"TransactionConflict", "ConditionalCheckFailed", "ValidationException"} :
          WriteRejected(kind)
    \/ ResponseLost
    \/ RetryAttempt

SpecLossy == InitB /\ [][NextLossy]_vars

\* Requests retrying at once on one workload object.
NextRetryDelay ==
    \/ \E r \in Requests : RequestStart(r)
    \/ \E r \in Requests : AttemptFailed(r)
    \/ \E r \in Requests : AttemptSucceeded(r)
    \/ \E r \in Requests : NextAttempt(r)
    \/ ClockTick

SpecRetryDelay == InitB /\ [][NextRetryDelay]_vars

\* Calls of createTransfersBatch with batches of a full transaction's length
\* and longer, every transfer of a batch between the same two accounts.
LargeBatchSizes == {BatchSizeLimit, BatchSizeLimit + 1}
LargeBatches ==
    { BatchFrom(base, n, [k \in 1..n |-> <<d, c>>]) :
        base \in IdBases, n \in LargeBatchSizes, d \in AccountIds, c \in AccountIds }

NextLarge ==
    \/ \E strat \in {"noRetry", "pRetry"}, b \in LargeBatches : CallCreateTransfers(strat, b)
    \/ WriteAccepted
    \/ \E kind \in {"TransactionConflict", "ConditionalCheckFailed", "ValidationException"} :
          WriteRejected(kind)
    \/ RetryAttempt

SpecLarge == InitB /\ [][NextLarge]_vars

(***************************************************************************)
(* The measurement of one iteration, on its own: iterationCount += 1 and   *)
(* the two calls of recordDuration, for calls that may resolve within one  *)
(* reading of performance.now() and intended starts at or before the       *)
(* request's start.                                                        *)
(***************************************************************************)
MaxSamples == 3
MaxRecordClockMs == 2

InitRecord ==
    /\ InitBatch
    /\ InitDriver([targetRequestRatePerSecond |-> 1000, durationMs |-> Fixed(3),
                   timeoutValueMs |-> <<>>, skipWarmup |-> FALSE,
                   requestsPerIteration |-> 1])

restrecord == <<txvars, cfgvars, runvars, report, spyvars, tallyvars, ghostvars, wakeAt,
                requestCount, errorIterations, missedIterations, workerRunTime,
                workerBackoffTime, workerBehindScheduleTime>>

\* const requestStart = performance.now(), for an iteration whose intended
\* start, iterationStart, is now or was earlier.
RecordStart(w) ==
    /\ wpc[w] = "idle"
    /\ iterationCount < MaxSamples
    /\ \E ms \in 0..MaxRecordClockMs :
          /\ Fixed(ms) <= now
          /\ iterationStart' = [iterationStart EXCEPT ![w] = Fixed(ms)]
    /\ requestStart' = [requestStart EXCEPT ![w] = now]
    /\ wpc' = [wpc EXCEPT ![w] = "measure"]
    /\ UNCHANGED <<restrecord, now, iterationCount, histograms>>

\* const iterationCompleted = performance.now(); this.iterationCount += 1 and
\* the two calls of recordDuration.
RecordDurations(w) ==
    /\ wpc[w] = "measure"
    /\ iterationCount' = iterationCount + 1
    /\ requestLatencyMicros' =
          recordDuration(requestLatencyMicros, Micros(IterationDurationMillis(w)))
    /\ serviceTimeMicros' = recordDuration(serviceTimeMicros, Micros(ServiceTimeMillis(w)))
    /\ wpc' = [wpc EXCEPT ![w] = "idle"]
    /\ UNCHANGED <<restrecord, now, iterationStart, requestStart>>

RecordClock ==
    /\ now < Fixed(MaxRecordClockMs)
    /\ now' = now + Fixed(1)
    /\ UNCHANGED <<restrecord, wpc, iterationStart, requestStart, iterationCount, histograms>>

NextRecord ==
    \/ \E w \in Workers : RecordStart(w)
    \/ \E w \in Workers : RecordDurations(w)
    \/ RecordClock

SpecRecord == InitRecord /\ [][NextRecord]_vars

(***************************************************************************)
(* What the claims about the write builder speak of.                       *)
(***************************************************************************)
PutIndexes == { i \in DOMAIN items : items[i].op = "Put" }
UpdateIndexes == { i \in DOMAIN items : items[i].op = "Update" }
UpdatesFor(a) == { i \in UpdateIndexes : items[i].pk = <<"account", a>> }
TouchedAccounts ==
    { batch[k].debit_account_id : k \in DOMAIN batch }
        \cup { batch[k].credit_account_id : k \in DOMAIN batch }

RECURSIVE SumOver(_, _)
SumOver(S, f) ==
    IF S = {} THEN 0
    ELSE LET k == CHOOSE x \in S : TRUE IN f[k] + SumOver(S \ {k}, f)

DebitSum(a) ==
    SumOver({ k \in DOMAIN batch : batch[k].debit_account_id = a },
            [k \in DOMAIN batch |-> batch[k].amount])
CreditSum(a) ==
    SumOver({ k \in DOMAIN batch : batch[k].credit_account_id = a },
            [k \in DOMAIN batch |-> batch[k].amount])

\* C1: the write of a batch T holds exactly |T| put-if-absent items, one per
\* transfer and keyed by its id, plus exactly one balance update per distinct
\* account that is a debit or credit account in T, and nothing else; no
\* account has two updates.
C1_PutsAndOneUpdatePerAccount ==
    txpc = "sent" =>
        /\ Cardinality(PutIndexes) = Len(batch)
        /\ \A k \in DOMAIN batch :
              Cardinality({ i \in PutIndexes : items[i].pk = <<"transfer", batch[k].id>> }) = 1
        /\ \A i \in PutIndexes : items[i].ConditionExpression = "attribute_not_exists(pk)"
        /\ Cardinality(UpdateIndexes) = Cardinality(TouchedAccounts)
        /\ \A a \in AccountIds :
              Cardinality(UpdatesFor(a)) = IF a \in TouchedAccounts THEN 1 ELSE 0
        /\ Len(items) = Len(batch) + Cardinality(TouchedAccounts)

\* A batch in which an account occurs in several transfers has been sent.
C1_Witness ==
    /\ txpc = "sent"
    /\ Len(batch) = 3
    /\ Cardinality(TouchedAccounts) = 2
    /\ \E a \in TouchedAccounts :
          Cardinality({ k \in DOMAIN batch :
              a \in {batch[k].debit_account_id, batch[k].credit_account_id} }) >= 2

\* C2: the one update of every touched account carries the sum of the amounts
\* of the batch's transfers debiting it as :debit_amount and the sum of those
\* crediting it as :credit_amount (0 when there is none), whatever the order
\* of the transfers.
C2_UpdateCarriesSums ==
    txpc = "sent" =>
        \A a \in TouchedAccounts : \A i \in UpdatesFor(a) :
            /\ items[i].debit_amount = DebitSum(a)
            /\ items[i].credit_amount = CreditSum(a)

\* Seed scenario 3 of the spec, {1->2: a, 2->1: b, 1->3: c}: account 1 is
\* debited twice and credited once.
C2_Witness ==
    /\ txpc = "sent"
    /\ Len(batch) = 3
    /\ \E a \in TouchedAccounts :
          /\ Cardinality({ k \in DOMAIN batch : batch[k].debit_account_id = a }) = 2
          /\ Cardinality({ k \in DOMAIN batch : batch[k].credit_account_id = a }) = 1
          /\ \E i \in UpdatesFor(a) :
                items[i].debit_amount >= 2 /\ items[i].credit_amount >= 1

(***************************************************************************)
(* What the claims about the driver speak of.                              *)
(***************************************************************************)
\* n copies of v as a bag.
Copies(v, n) == IF n = 0 THEN EmptyBag ELSE [x \in {v} |-> n]

\* What worker w holds: it changes whenever w takes a step.
WorkerLocal(w) == <<wpc[w], iterationStart[w], requestStart[w], wakeAt[w]>>
WarmupPcs == {"idle", "jitter", "warmup", "warmupSleep"}
RunOver == runpc \in {"returned", "failed"}
NoWorkerStarted == \A w \in Workers : wpc[w] = "idle"

\* C3: for every iteration performed in the measurement phase, the request
\* latency recorded for it is at least the service time recorded for it.
C3_LatencyAtLeastServiceTime ==
    [][ iterationCount' = iterationCount + 1 =>
          \E vr \in BagToSet(requestLatencyMicros'), vs \in BagToSet(serviceTimeMicros') :
              /\ serviceTimeMicros' = serviceTimeMicros (+) SetToBag({vs})
              /\ requestLatencyMicros' =
                    requestLatencyMicros (+) SetToBag({vr})
                        (+) Copies(Micros(timeoutValueMs), missedIterations' - missedIterations)
              /\ vr >= vs ]_vars

\* A measured iteration that began after its intended start: its latency is
\* larger than every service time recorded.
C3_Witness ==
    /\ iterationCount >= 2
    /\ missedIterations = 0
    /\ \E vr \in BagToSet(requestLatencyMicros) :
          \A vs \in BagToSet(serviceTimeMicros) : vr > vs

\* C4: at the end of a run the iterations counted (completed + errored +
\* missed) are as many as the intended starts that were taken: each is
\* accounted once, as performed or as missed.
C4_EveryArrivalAccountedOnce ==
    (runpc \in {"teardown", "returned", "failed"} /\ setupCalls = 1 /\ runResult # "setupError") =>
        (iterationCount - errorIterations) + errorIterations + missedIterations = arrivalsTaken

\* C5: every missed iteration adds one to missedIterations and one sample of
\* the timeout value, in microseconds, to the request latencies, and no sample
\* to the service times.
C5_MissedIterationRecordsTimeout ==
    [][ LET m == missedIterations' - missedIterations
            p == iterationCount' - iterationCount
        IN /\ m >= 0
           /\ p \in {0, 1}
           /\ BagCardinality(serviceTimeMicros') = BagCardinality(serviceTimeMicros) + p
           /\ BagCardinality(requestLatencyMicros') = BagCardinality(requestLatencyMicros) + p + m
           /\ m > 0 =>
                \E v \in BagToSet(requestLatencyMicros') :
                    requestLatencyMicros' =
                        requestLatencyMicros (+) SetToBag({v}) (+) Copies(Micros(timeoutValueMs), m)
      ]_vars

\* Two iterations were missed and the timeout value stands twice among the
\* request latencies.
C5_Witness ==
    /\ missedIterations >= 2
    /\ CopiesIn(Micros(timeoutValueMs), requestLatencyMicros) >= 2
    /\ BagCardinality(serviceTimeMicros) = iterationCount

\* C6: a worker in its warmup phase calls performIteration but touches no
\* counter and no histogram, also when the call fails; so while every worker
\* is still in warmup all counters are 0 and both histograms are empty.
C6_WarmupCountsNothing ==
    /\ []( (\A w \in Workers : wpc[w] \in WarmupPcs) =>
              /\ iterationCount = 0 /\ requestCount = 0 /\ errorIterations = 0
              /\ missedIterations = 0 /\ workerRunTime = 0 /\ workerBackoffTime = 0
              /\ workerBehindScheduleTime = 0
              /\ requestLatencyMicros = EmptyBag /\ serviceTimeMicros = EmptyBag )
    /\ [][ \A w \in Workers :
              (wpc[w] \in WarmupPcs \ {"idle"} /\ WorkerLocal(w)' # WorkerLocal(w)) =>
                  /\ UNCHANGED <<counters, histograms>>
                  /\ runpc' = runpc ]_vars

\* A warmup pass has failed while the other worker is already measuring.
C6_Witness ==
    /\ \E w \in Workers : wpc[w] = "warmupSleep"
    /\ performFailures >= 1
    /\ errorIterations = 0
    /\ iterationCount >= 1

C8_SetupBeforeWorkers ==
    targetRps # 0 =>
        /\ setupCalls = (IF runpc = "new" THEN 0 ELSE 1)
        /\ runpc \in {"new", "setup"} => (NoWorkerStarted /\ performCalls = 0)
        /\ runResult = "setupError" =>
              (runpc = "failed" /\ NoWorkerStarted /\ performCalls = 0)
        /\ (runpc = "failed" /\ teardownCalls = 0) => runResult = "setupError"

\* setup() was called once and the workers are calling performIteration.
C8_Witness ==
    /\ targetRps # 0
    /\ setupCalls = 1
    /\ runpc = "workers"
    /\ performCalls >= 2

\* C9 as stated: teardown() is called exactly once per run, after every
\* worker loop has finished.
C9_TeardownOncePerRun ==
    /\ teardownCalls <= 1
    /\ teardownCalls = 1 => \A w \in Workers : wpc[w] = "finished"
    /\ RunOver => teardownCalls = 1

\* C9 as amended: teardown() is called exactly once in every run whose target
\* rate is above 0 and whose setup() succeeded, and in no other run; it is
\* called only after every worker loop has finished, also when iterations
\* failed.
C9_TeardownOnceAfterWorkers ==
    /\ teardownCalls <= 1
    /\ teardownCalls = 1 => \A w \in Workers : wpc[w] = "finished"
    /\ RunOver => (teardownCalls = 1 <=> (targetRps # 0 /\ runResult # "setupError"))

\* teardown() was called in a run in which iterations failed.
C9_Witness ==
    /\ teardownCalls = 1
    /\ RunOver
    /\ errorIterations >= 1

\* C10 as stated: at a target rate of 0 run() calls setup() and teardown() and
\* returns without starting a worker or calling performIteration.
C10_ZeroRateSetupTeardown ==
    (targetRps = 0 /\ RunOver) =>
        /\ setupCalls = 1 /\ teardownCalls = 1
        /\ NoWorkerStarted /\ performCalls = 0

\* C10 as amended: at a target rate of 0 run() returns without calling
\* setup() or teardown() and without starting a worker: performIteration is
\* never called.
C10_ZeroRateReturnsAtOnce ==
    targetRps = 0 =>
        /\ setupCalls = 0 /\ teardownCalls = 0
        /\ NoWorkerStarted /\ performCalls = 0
        /\ runpc \in {"new", "returned"}

\* run() has returned at a target rate of 0.
C10_Witness ==
    /\ targetRps = 0
    /\ runpc = "returned"

\* C11 as stated: run() always returns the final report; at a target rate of
\* 0 it returns a report whose iteration, missed and error counters are 0.
C11_AlwaysReturnsReport ==
    runpc = "returned" =>
        /\ runResult = "report"
        /\ Len(report) = 1
        /\ targetRps = 0 =>
              /\ report[1].iterations = 0
              /\ report[1].missedIterations = 0
              /\ report[1].errorIterations = 0

\* C11 as amended: run() returns the report, holding the driver's counters,
\* exactly when the target rate is above 0 and setup() and teardown()
\* succeeded; at a target rate of 0 it returns undefined, and when setup() or
\* teardown() fails it rejects without a report.
C11_ReportUnlessZeroRate ==
    /\ runpc # "returned" => report = <<>>
    /\ runpc = "returned" =>
          IF targetRps = 0
          THEN runResult = "undefined" /\ report = <<>>
          ELSE /\ runResult = "report"
               /\ setupCalls = 1 /\ teardownCalls = 1
               /\ Len(report) = 1
               /\ report[1].iterations = iterationCount
               /\ report[1].requests = requestCount
               /\ report[1].errorIterations = errorIterations
               /\ report[1].missedIterations = missedIterations

\* run() has returned undefined.
C11_Witness ==
    /\ runpc = "returned"
    /\ runResult = "undefined"
    /\ report = <<>>
    /\ targetRps = 0

\* The ratio r is the number 1.
IsOne(r) == r.den > 0 /\ r.num = r.den

\* C12: when every performIteration call fails, run() still returns the
\* report (unless setup() or teardown() fails); in it no iteration is
\* successful and no item is counted, errorIterations is the number of
\* iterations performed in the measurement phase, and failedIterationsRatio
\* is 1.
C12_AllFailedReport ==
    (performFailures = performCalls /\ performCalls > 0) =>
        /\ requestCount = 0
        /\ RunOver => (runResult \in {"report", "teardownError"})
        /\ runResult = "report" =>
              /\ Len(report) = 1
              /\ report[1].requests = 0
              /\ report[1].iterations - report[1].errorIterations = 0
              /\ report[1].errorIterations = measuredCalls
              /\ measuredCalls > 0
              /\ IsOne(report[1].failedIterationsRatio)

\* The report of a run in which every call failed, in warmup and in the
\* measurement phase, and iterations were missed.
C12_Witness ==
    /\ Len(report) = 1
    /\ performFailures = performCalls
    /\ performCalls > measuredCalls
    /\ measuredCalls >= 2
    /\ report[1].missedIterations >= 1

\* The ratio r is a number between 0 and 1.
InUnitInterval(r) == r.den > 0 /\ 0 <= r.num /\ r.num <= r.den

\* C13: in every report of a run with a target rate above 0,
\* failedIterationsRatio = (errorIterations + missedIterations) /
\* (iterations + missedIterations) is a number in [0, 1]: the denominator is
\* not 0, every worker having measured at least one iteration, and
\* errorIterations is at most the number of measured iterations.
C13_FailedRatioInUnitInterval ==
    /\ errorIterations <= measuredCalls
    /\ Len(report) = 1 =>
          /\ targetRps > 0
          /\ report[1].failedIterationsRatio =
                Div(report[1].errorIterations + report[1].missedIterations,
                    report[1].iterations + report[1].missedIterations)
          /\ InUnitInterval(report[1].failedIterationsRatio)
          /\ report[1].iterations = measuredCalls
          /\ report[1].iterations >= Concurrency
          /\ report[1].errorIterations <= report[1].iterations

\* A report with failed, missed and successful iterations: the ratio is
\* strictly between 0 and 1.
C13_Witness ==
    /\ Len(report) = 1
    /\ report[1].errorIterations >= 1
    /\ report[1].missedIterations >= 1
    /\ report[1].failedIterationsRatio.num < report[1].failedIterationsRatio.den

\* The latest time a worker has accounted for: the clock, or the due time of
\* a backoff sleep in progress (its length is added when it begins).
RECURSIVE MaxOver(_, _)
MaxOver(S, f) ==
    IF S = {} THEN 0
    ELSE LET x == CHOOSE y \in S : TRUE
             m == MaxOver(S \ {x}, f)
         IN IF f[x] >= m THEN f[x] ELSE m
AccountedUntil ==
    MaxOver(Workers, [w \in Workers |-> IF wpc[w] = "backoff" /\ wakeAt[w] > now
                                         THEN wakeAt[w] ELSE now])

\* C14 as stated: the accumulated worker run time plus backoff time is at
\* most the configured duration times the concurrency, in every state and in
\* the report.
C14_RunPlusBackoffWithinDuration ==
    /\ workerRunTime + workerBackoffTime <= overallDurationMs * Concurrency
    /\ Len(report) = 1 =>
          report[1].runTimeMillis + report[1].backoffTimeMillis <= overallDurationMs * Concurrency

\* C14 as amended: the accumulated worker run time plus backoff time is at
\* most the concurrency times the time for which the workers have run (a
\* backoff sleep in progress counted up to its due time), a worker being in
\* one of the two states at a time; in the report, at most the concurrency
\* times the time from startTime to the end of the last worker.
C14_RunPlusBackoffWithinElapsed ==
    /\ workerRunTime >= 0 /\ workerBackoffTime >= 0
    /\ workerRunTime + workerBackoffTime <= Concurrency * AccountedUntil
    /\ Len(report) = 1 =>
          /\ report[1].runTimeMillis + report[1].backoffTimeMillis <= Concurrency * now
          /\ report[1].runTimeMillis = workerRunTime
          /\ report[1].backoffTimeMillis = workerBackoffTime

\* A report in which run time plus backoff time exceeds duration x
\* concurrency although no call failed and the workers did back off.
C14_Witness ==
    /\ Len(report) = 1
    /\ performFailures = 0
    /\ report[1].backoffTimeMillis > 0
    /\ report[1].runTimeMillis + report[1].backoffTimeMillis > overallDurationMs * Concurrency

\* Worker w begins a performIteration call in this step.
Begins(w) == requestStart'[w] # 0 /\ WorkerLocal(w)' # WorkerLocal(w) /\ performCalls' = performCalls + 1
MeasurePcs == {"measure", "backoff"}

\* C16: no worker begins a performIteration call once the clock is past
\* endTime.
C16_NoIterationPastEndTime ==
    [][ \A w \in Workers : (runpc = "workers" /\ Begins(w)) => now <= endTime ]_vars

C19_IntendedStartsEvenlySpaced ==
    [][ \A w \in Workers :
          (wpc[w] \in MeasurePcs /\ Begins(w)) =>
              (iterationStart'[w] - iterationStart[w]) % workerCycleTimeMs = 0 ]_vars

\* C19 as amended: the intended start advances by exactly one worker cycle
\* only when the iteration ends before its next intended start, the worker
\* first sleeping until then; it stays as it is when the iteration ends at
\* that time or up to one cycle after it; and when the iteration ends more
\* than one cycle after it the intended start is reset to the time the
\* iteration completed, so that all later intended starts shift.
C19_IntendedStartShiftsWhenLate ==
    [][ \A w \in Workers :
          LET next == iterationStart[w] + workerCycleTimeMs IN
          /\ (wpc[w] = "measure" /\ wpc'[w] = "backoff") =>
                (now < next /\ wakeAt'[w] = next /\ iterationStart'[w] = iterationStart[w])
          /\ (wpc[w] = "backoff" /\ Begins(w)) =>
                (now >= next /\ iterationStart'[w] = next)
          /\ (wpc[w] = "measure" /\ Begins(w)) =>
                /\ now >= next
                /\ iterationStart'[w] = (IF now - next > workerCycleTimeMs
                                          THEN now ELSE iterationStart[w]) ]_vars

\* A worker whose first measured iteration ended more than a cycle late goes
\* on from the time it completed.
C19_Witness ==
    \E w \in Workers :
        /\ wpc[w] = "measure"
        /\ iterationStart[w] = requestStart[w]
        /\ iterationStart[w] >= Fixed(6)
        /\ iterationCount = 1
        /\ missedIterations = 1

\* The iterations the report counts, and the iterations the target rate asks
\* for over duration - warmup, both multiplied by the worker cycle time
\* (target rate = concurrency / worker cycle time).
CountedTimesCycle == (report[1].iterations + report[1].missedIterations) * workerCycleTimeMs
ExpectedTimesCycle == Concurrency * benchmarkDurationMs
Abs(x) == IF x < 0 THEN 0 - x ELSE x
WithinFivePercent == 20 * Abs(CountedTimesCycle - ExpectedTimesCycle) <= ExpectedTimesCycle

ItemCountsHold ==
    /\ requestCount = requestsPerIteration * (measuredCalls - measuredFailures)
    /\ errorIterations = measuredFailures
    /\ report # <<>> =>
          /\ report[1].requests = requestsPerIteration * (measuredCalls - measuredFailures)
          /\ report[1].errorIterations = measuredFailures
          /\ report[1].runTimeMillis = workerRunTime

\* The measured call of worker w settles in this step.
Settles(w) == wpc[w] = "measure" /\ Acts(w)

\* workerRunTime is written by no step but the settling of a measured call.
RunTimeOnlyOnSettle == (\A w \in Workers : ~Settles(w)) => workerRunTime' = workerRunTime

\* C20 as stated: the item count is requestsPerIteration x the measured
\* iterations that succeeded, a failed iteration adds to errorIterations and
\* adds no items, and worker run time grows by the service time of every
\* successful measured iteration and by nothing else.
C20_RunTimeOfSuccessesOnly ==
    /\ []ItemCountsHold
    /\ [][RunTimeOnlyOnSettle]_vars
    /\ [][ \A w \in Workers :
              Settles(w) =>
                  workerRunTime' = workerRunTime +
                      (IF measuredFailures' = measuredFailures THEN now - requestStart[w] ELSE 0) ]_vars

\* C20 as amended: the same counts, with worker run time growing by the
\* service time of every measured iteration, failed or not.
C20_RunTimeOfAllMeasured ==
    /\ []ItemCountsHold
    /\ [][RunTimeOnlyOnSettle]_vars
    /\ [][ \A w \in Workers :
              Settles(w) =>
                  /\ workerRunTime' = workerRunTime + (now - requestStart[w])
                  /\ (measuredFailures' # measuredFailures =>
                        (requestCount' = requestCount /\ errorIterations' = errorIterations + 1)) ]_vars

\* The report of a run in which a measured iteration failed and another
\* succeeded.
C20_Witness ==
    /\ report # <<>>
    /\ report[1].errorIterations >= 1
    /\ report[1].requests >= 1
    /\ report[1].runTimeMillis > 0

\* run() has ended with the report, or by throwing what setup or teardown
\* threw.
ReportedOrThrown == runpc = "failed" \/ (runpc = "returned" /\ report # <<>>)

\* The workers start together when setup returns; each of them leaves its
\* loops.
WorkersExit ==
    (\E w \in Workers : wpc[w] # "idle") ~> (\A w \in Workers : wpc[w] = "finished")

\* C17 as stated: every worker loop eventually exits and run() eventually
\* returns the report, unless setup or teardown throws.
C17_RunReturnsReport ==
    /\ WorkersExit
    /\ (runpc = "new") ~> ReportedOrThrown

\* C17 as amended: every worker loop eventually exits; at a target rate other
\* than 0 run() eventually returns the report unless setup or teardown
\* throws, and at target rate 0 it returns without a report and without
\* starting a worker.
C17_RunReturnsReportAtPositiveRate ==
    /\ WorkersExit
    /\ (runpc = "new") ~>
          IF targetRps = 0
          THEN runpc = "returned" /\ report = <<>> /\ \A w \in Workers : wpc[w] = "idle"
          ELSE ReportedOrThrown

\* run() has returned the report after a worker slipped behind its schedule
\* and a call failed: every worker is out of its loop.
C17_Witness ==
    /\ runpc = "returned"
    /\ report # <<>>
    /\ \A w \in Workers : wpc[w] = "finished"
    /\ workerBehindScheduleTime > 0
    /\ errorIterations > 0

\* A call of createTransfersBatch is running with the batch of the latest
\* call that returned OK.
Reinvoking == txpc # "idle" /\ lastWritten = <<batch>>

\* C21: re-invoking createTransfersBatch with the batch of the previous,
\* successful call, against a table that retains every token, changes no
\* account balance (and no item of the table at all).
C21_ReinvocationChangesNoBalance ==
    [][ Reinvoking => (accounts' = accounts /\ transfers' = transfers) ]_vars

\* The second call of the same non-empty batch is over, after four attempts
\* of the workload's strategy: the table is as it was before it.
C21_Witness ==
    /\ calls = 2
    /\ txpc = "idle"
    /\ batch # <<>>
    /\ lastWritten = <<batch>>
    /\ strategy = "pRetry"
    /\ attemptNumber = 4
    /\ outcome # <<>>
    /\ outcome[1].threw
    /\ accounts = accountsBefore
    /\ 1 \in DOMAIN accounts
    /\ accounts[1].debits_posted + accounts[1].credits_posted > 0

\* The ids of the transfer items in a set of them, and of a batch.
IdsIn(trs) == { t.id : t \in trs }
IdsOf(b) == { b[k].id : k \in DOMAIN b }

\* C22: a command with a new token, for a batch of which at least one
\* transfer id is already in the table, is never accepted: the step that
\* settles it changes no account and adds no transfer item, and the call,
\* once over, has thrown, the table being as it was before the call.
C22_ExistingIdRejectsWholeWrite ==
    /\ [][ (txpc = "sent" /\ IdsOf(batch) \cap IdsIn(transfers) # {}) =>
              /\ accounts' = accounts
              /\ transfers' = transfers
              /\ (outcome' # <<>> => outcome'[1].threw) ]_vars
    /\ []( (txpc = "idle" /\ outcome # <<>> /\ IdsOf(batch) \cap IdsIn(transfersBefore) # {}) =>
              /\ outcome[1].threw
              /\ accounts = accountsBefore
              /\ transfers = transfersBefore )

\* A call is over whose batch held one id that was in the table and one that
\* was not: it threw on the condition and the new id was not added.
C22_Witness ==
    /\ txpc = "idle"
    /\ outcome # <<>>
    /\ outcome[1].name = "ConditionalCheckFailed"
    /\ IdsOf(batch) \cap IdsIn(transfersBefore) # {}
    /\ IdsOf(batch) \ IdsIn(transfersBefore) # {}
    /\ transfers = transfersBefore
    /\ accounts = accountsBefore

\* An attribute of an item, a missing one counting as 0 (as ADD takes it).
Attr(item, x) == IF x \in DOMAIN item THEN item[x] ELSE 0

\* The attribute x is the same in both items: missing in both, or present in
\* both with one value.
SameAttr(before, after, x) ==
    /\ (x \in DOMAIN after) = (x \in DOMAIN before)
    /\ Attr(after, x) = Attr(before, x)

\* C23: when createTransfersBatch has returned OK, every account the batch
\* names has debits_posted and credits_posted grown by the batch's debit
\* and credit sums for it, with ledger, debits_pending and credits_pending
\* (and its key) as before, and every other account is as before.
C23_OnlyPostedBalancesGrow ==
    (txpc = "idle" /\ outcome # <<>> /\ ~outcome[1].threw) =>
        /\ DOMAIN accounts = (DOMAIN accountsBefore) \cup TouchedAccounts
        /\ \A a \in TouchedAccounts :
              LET before == ItemOf(accountsBefore, a)
                  after == accounts[a]
              IN /\ after.debits_posted = Attr(before, "debits_posted") + DebitSum(a)
                 /\ after.credits_posted = Attr(before, "credits_posted") + CreditSum(a)
                 /\ \A x \in {"ledger", "debits_pending", "credits_pending"} :
                       SameAttr(before, after, x)
        /\ \A a \in (DOMAIN accountsBefore) \ TouchedAccounts :
              accounts[a] = accountsBefore[a]

\* A call has returned OK for a batch that names both accounts, one of them
\* twice as debit account: the account created beforehand and the account
\* without an item have both grown.
C23_Witness ==
    /\ txpc = "idle"
    /\ outcome # <<>>
    /\ ~outcome[1].threw
    /\ TouchedAccounts = AccountIds
    /\ Len(batch) = 2
    /\ \E a \in AccountIds : DebitSum(a) = 3
    /\ accountsBefore # accounts
    /\ 2 \in DOMAIN accounts
    /\ "ledger" \notin DOMAIN accounts[2]

\* C24: when createTransfersBatch has returned, its result is OK with
\* itemsWritten the length of the item list of the command that was sent (its
\* puts plus its coalesced updates), which is at least |batch| + 1 for a
\* non-empty batch and at most 3 x |batch|; request() adds that number to
\* its counter of items written.
C24_ItemsWrittenIsItemListLength ==
    /\ []( (txpc = "idle" /\ outcome # <<>> /\ ~outcome[1].threw) =>
              /\ outcome[1].overallResult = "OK"
              /\ outcome[1].itemsWritten = Len(InFlight.TransactItems)
              /\ outcome[1].itemsWritten = Cardinality(PutIndexes) + Cardinality(UpdateIndexes)
              /\ batch # <<>> => outcome[1].itemsWritten >= Len(batch) + 1
              /\ outcome[1].itemsWritten <= 3 * Len(batch) )
    /\ [][ (strategy = "pRetry" /\ outcome = <<>> /\ outcome' # <<>> /\ ~outcome'[1].threw) =>
              globalWriteCounter' = globalWriteCounter + Len(InFlight.TransactItems) ]_vars

\* request() has returned for a batch of two transfers that name a single
\* account: two puts and one update were written and counted.
C24_Witness ==
    /\ txpc = "idle"
    /\ strategy = "pRetry"
    /\ outcome # <<>>
    /\ ~outcome[1].threw
    /\ Len(batch) = 2
    /\ outcome[1].itemsWritten = 3
    /\ globalWriteCounter >= 3

\* The table rejects the command in flight in this step.
Rejected == txpc = "sent" /\ txpc' # "sent" /\ sinkTokens' = sinkTokens

\* C25: under the workload's strategy the write is attempted at most 4
\* times for one batch, one command per attempt; a rejected attempt before
\* the fourth is followed by a timeout and then by another attempt with
\* the same items, the fourth rejection ends the call, and once an attempt
\* is accepted the call is over and no command is sent until the next call.
C25_AtMostFourAttempts ==
    /\ [](attemptNumber <= 4 /\ Len(received) = nextToken - 1)
    /\ [][ (strategy = "pRetry" /\ Rejected) =>
              IF attemptNumber < 4
              THEN txpc' = "delay" /\ outcome' = <<>> /\ received' = received
              ELSE txpc' = "idle" /\ outcome' # <<>> /\ outcome'[1].threw ]_vars
    /\ [][ txpc = "delay" =>
              /\ txpc' = "sent"
              /\ attemptNumber' = attemptNumber + 1
              /\ received' = Append(received, Command(nextToken, InFlight.TransactItems)) ]_vars
    /\ [][ (txpc = "sent" /\ ~Rejected) =>
              (txpc' = "idle" /\ outcome' # <<>> /\ ~outcome'[1].threw /\ received' = received) ]_vars
    /\ [][ (txpc = "idle" /\ received' # received) =>
              (calls' = calls + 1 /\ attemptNumber' = 1) ]_vars

\* A call under the workload's strategy has returned OK on its fourth
\* attempt, after three rejections.
C25_Witness ==
    /\ txpc = "idle"
    /\ strategy = "pRetry"
    /\ calls = 1
    /\ attemptNumber = 4
    /\ Len(received) = 4
    /\ outcome # <<>>
    /\ ~outcome[1].threw

\* C26: when the fourth attempt of a batch is rejected under the workload's
\* strategy, the call ends by throwing the rejection of that fourth attempt,
\* nothing has been written, request() adds nothing to its write counter,
\* and the driver counts one error iteration and no request.
C26_LastFailurePropagates ==
    /\ [][ (strategy = "pRetry" /\ Rejected /\ attemptNumber = 4) =>
              /\ Len(errors') = 4
              /\ outcome' = <<Thrown(errors'[4])>>
              /\ errorIterations' = errorIterations + 1
              /\ requestCount' = requestCount
              /\ globalWriteCounter' = globalWriteCounter
              /\ accounts' = accountsBefore /\ transfers' = transfersBefore ]_vars
    /\ [][ (strategy = "pRetry" /\ errorIterations' # errorIterations) =>
              (Rejected /\ attemptNumber = 4) ]_vars

\* All four attempts of a batch were rejected, the last one for another
\* reason than the first, and the call threw the last one's.
C26_Witness ==
    /\ txpc = "idle"
    /\ strategy = "pRetry"
    /\ Len(errors) = 4
    /\ errors[1] # errors[4]
    /\ outcome = <<Thrown(errors[4])>>
    /\ errorIterations = 1

SecondAttemptAccepted ==
    /\ txpc = "sent"
    /\ strategy = "pRetry"
    /\ calls = 1
    /\ Len(errors) = 1
    /\ sinkTokens' # sinkTokens

\* C28 as stated: for a batch whose first attempt is rejected and whose
\* second attempt is accepted, the reported count for that batch is 2.
C28_ReportedCountIsTwo ==
    [][ SecondAttemptAccepted => conflictsRetryAttempts' = 2 ]_vars

\* C28, amended: the count the workload reports is the cumulative number of
\* failed attempts: it grows by one when an attempt made under the
\* workload's strategy is rejected and changes in no other step, so a batch
\* whose first attempt is rejected and whose second is accepted adds 1.
C28_ReportedCountIsFailedAttempts ==
    /\ [][ conflictsRetryAttempts' =
              IF strategy = "pRetry" /\ Rejected
              THEN conflictsRetryAttempts + 1
              ELSE conflictsRetryAttempts ]_vars
    /\ [][ SecondAttemptAccepted => conflictsRetryAttempts' = 1 ]_vars

\* The first batch was accepted on its second attempt and the count is 1.
C28_Witness ==
    /\ txpc = "idle"
    /\ strategy = "pRetry"
    /\ calls = 1
    /\ attemptNumber = 2
    /\ outcome # <<>>
    /\ ~outcome[1].threw
    /\ conflictsRetryAttempts = 1

\* C29: every timeout waited between two attempts of a batch is at least
\* 20 ms and at most 60 ms, whichever the retry and the jitter; it is the
\* rounded jitter x 20 x 1.2^k of one of the retries k, capped at 60.
C29_DelaysWithinBounds ==
    /\ [](txpc = "delay" =>
            /\ delay >= 20
            /\ delay <= 60
            /\ \E k \in 0..2, j \in JitterTenths :
                  delay = Min(60, RoundDiv(j * 20 * Pow(12, k), 10 * Pow(10, k))))
    /\ [](txpc # "delay" => delay = 0)

\* The wrapper waits the longest timeout its options allow, 58 ms, before
\* the fourth attempt.
C29_Witness ==
    /\ txpc = "delay"
    /\ attemptNumber = 3
    /\ delay = 58

\* C30: when a measured iteration of worker w completes at latency d from
\* its intended start and more than one cycle after the next intended
\* start, missedIterations grows by floor(d / cycle) - 1 and the worker's
\* schedule restarts at the completion time (its next iteration, if the end
\* time has not come, starts there and then); when it completes at most one
\* cycle after the next intended start, and in every other step,
\* missedIterations is unchanged.
C30_MissedIterationsAreWholeCyclesSkipped ==
    /\ [][ \A w \in Workers :
              Settles(w) =>
                  LET d == now - iterationStart[w]
                      behindMs == now - (iterationStart[w] + workerCycleTimeMs)
                  IN IF behindMs > workerCycleTimeMs
                     THEN /\ missedIterations' = missedIterations + (d \div workerCycleTimeMs) - 1
                          /\ missedIterations' > missedIterations
                          /\ IF now < endTime
                             THEN /\ wpc'[w] = "measure"
                                  /\ iterationStart'[w] = now
                                  /\ requestStart'[w] = now
                             ELSE wpc'[w] = "finished"
                     ELSE missedIterations' = missedIterations ]_vars
    /\ [][ (\A w \in Workers : ~Settles(w)) => missedIterations' = missedIterations ]_vars

\* The one measured call so far completed more than one cycle after its
\* next intended start, one missed iteration was recorded for it, and its
\* worker's next iteration started at the completion time; the other
\* workers are in their first measured call, begun too early to follow a
\* missed iteration.
C30_Witness ==
    /\ measuredCalls = 1
    /\ missedIterations = 1
    /\ workerBehindScheduleTime > workerCycleTimeMs
    /\ \E w \in Workers :
          /\ wpc[w] = "measure"
          /\ iterationStart[w] = now
          /\ requestStart[w] = now
          /\ \A v \in Workers \ {w} :
                wpc[v] = "measure" /\ iterationStart[v] <= 2 * workerCycleTimeMs

\* The table as it stood when the current call began, and as one
\* application of the call's items to it leaves it.
TableBefore == [accounts |-> accountsBefore, transfers |-> transfersBefore]
TableNow == [accounts |-> accounts, transfers |-> transfers]
AppliedOnce == ApplyItems(items, 1, TableBefore)

\* C31: whatever the attempts of a batch, the responses lost among them and
\* the new tokens of the re-sent commands, the table is either as it stood
\* when the call began or as one application of the batch's items leaves
\* it; once an attempt of the batch has committed, every later attempt is
\* rejected and changes nothing.
C31_BatchAppliedAtMostOnce ==
    /\ [](calls >= 1 => TableNow \in {TableBefore, AppliedOnce})
    /\ [][ (txpc = "sent" /\ transfers # transfersBefore) =>
              (TableNow' = TableNow /\ sinkTokens' = sinkTokens) ]_vars

\* The first attempt of a batch committed but was reported as a timeout; the
\* three attempts re-sent under new tokens were rejected by the condition on
\* the transfer ids, and the balances stand as applied once.
C31_Witness ==
    /\ txpc = "idle"
    /\ strategy = "pRetry"
    /\ errors = <<"TimeoutError", "ConditionalCheckFailed", "ConditionalCheckFailed",
                  "ConditionalCheckFailed">>
    /\ Len(batch) = 2
    /\ TableNow = AppliedOnce
    /\ accounts # accountsBefore

\* The call made with the workload's strategy is over and threw.
CallThrew == txpc = "idle" /\ strategy = "pRetry" /\ outcome # <<>> /\ outcome[1].threw

\* The call made with the workload's strategy is over and returned.
CallReturned == txpc = "idle" /\ strategy = "pRetry" /\ outcome # <<>> /\ ~outcome[1].threw

\* C32 as stated: a call that throws has committed nothing, and a call
\* that returns OK has committed its batch exactly once.
C32_ThrowsOnlyIfNothingCommitted ==
    /\ [](CallThrew => TableNow = TableBefore)
    /\ [](CallReturned => (outcome[1].overallResult = "OK" /\ TableNow = AppliedOnce))

\* C32, amended: a call that returns OK has committed its batch exactly
\* once; a call that throws has committed it at most once, and has
\* committed it only if the response of the committing attempt was lost.
C32_ThrowsAfterAtMostOneCommit ==
    /\ [](CallReturned => (outcome[1].overallResult = "OK" /\ TableNow = AppliedOnce))
    /\ [](CallThrew => TableNow \in {TableBefore, AppliedOnce})
    /\ []((CallThrew /\ TableNow # TableBefore) =>
            \E i \in DOMAIN errors : errors[i] = "TimeoutError")

\* A call of one transfer threw the rejection of its fourth attempt, a
\* failed condition, while the transfer and its balance changes are in the
\* table.
C32_Witness ==
    /\ CallThrew
    /\ Len(batch) = 1
    /\ outcome[1].name = "ConditionalCheckFailed"
    /\ transfers # transfersBefore
    /\ accounts # accountsBefore
    /\ TableNow = AppliedOnce

\* The sum of one balance over the accounts' items, and the sum of the
\* amounts of the transfers in the table.
PostedSum(x) == SumOver(DOMAIN accounts, [a \in DOMAIN accounts |-> Attr(accounts[a], x)])
CommittedAmounts == SumOver(transfers, [t \in transfers |-> t.amount])

SelfTransfers == { k \in DOMAIN batch : batch[k].debit_account_id = batch[k].credit_account_id }

\* The transfers of the batch that touch account a.
TransfersOf(a) ==
    { k \in DOMAIN batch : a \in {batch[k].debit_account_id, batch[k].credit_account_id} }

\* C34: no account has two update items in a write, whatever the order and
\* pairing of the accounts in the batch; the account of a transfer from an
\* account to itself has exactly one, which carries the transfer's amount
\* both as :debit_amount and as :credit_amount (on top of what the batch's
\* other transfers of that account add; alone when there are none).
C34_SelfTransferHasOneUpdate ==
    txpc = "sent" =>
        /\ \A a \in AccountIds : Cardinality(UpdatesFor(a)) <= 1
        /\ \A k \in SelfTransfers :
              LET a == batch[k].debit_account_id IN
              /\ Cardinality(UpdatesFor(a)) = 1
              /\ \A i \in UpdatesFor(a) :
                    /\ items[i].debit_amount =
                          batch[k].amount + SumOver({ j \in DOMAIN batch \ {k} :
                                                        batch[j].debit_account_id = a },
                                                    [j \in DOMAIN batch |-> batch[j].amount])
                    /\ items[i].credit_amount =
                          batch[k].amount + SumOver({ j \in DOMAIN batch \ {k} :
                                                        batch[j].credit_account_id = a },
                                                    [j \in DOMAIN batch |-> batch[j].amount])
                    /\ TransfersOf(a) = {k} =>
                          (items[i].debit_amount = batch[k].amount
                              /\ items[i].credit_amount = batch[k].amount)

\* A batch of one transfer from an account to itself has been sent: a Put
\* and one Update with the amount on both sides.
C34_Witness ==
    /\ txpc = "sent"
    /\ Len(batch) = 1
    /\ SelfTransfers = {1}
    /\ Len(items) = 2
    /\ items[2].op = "Update"
    /\ items[2].debit_amount = batch[1].amount
    /\ items[2].credit_amount = batch[1].amount

\* C35: whenever the workers are suspended, the service-time histogram holds
\* one sample for every measured iteration counted and the request-latency
\* histogram one for every measured iteration counted and one for every
\* missed iteration; every report publishes the statistics of both.
C35_HistogramCountsMatchCounters ==
    /\ BagCardinality(serviceTimeMicros) = iterationCount
    /\ BagCardinality(requestLatencyMicros) = iterationCount + missedIterations
    /\ report # <<>> =>
          /\ report[1].serviceTimeStatsMillis = HistogramStats(serviceTimeMicros)
          /\ report[1].requestLatencyStatsMillis = HistogramStats(requestLatencyMicros)
          /\ report[1].iterations = BagCardinality(serviceTimeMicros)
          /\ report[1].iterations + report[1].missedIterations
                = BagCardinality(requestLatencyMicros)

\* A report of a run with measured and missed iterations: the latency
\* histogram holds more samples than the service-time histogram, and the
\* report's largest latency is the timeout recorded for a missed iteration
\* or more.
C35_Witness ==
    /\ report # <<>>
    /\ iterationCount >= 2
    /\ missedIterations >= 1
    /\ BagCardinality(requestLatencyMicros) > BagCardinality(serviceTimeMicros)
    /\ report[1].serviceTimeStatsMillis.p0 # <<>>
    /\ report[1].requestLatencyStatsMillis.p100[1] >= Micros(timeoutValueMs)

\* C36: however the workers interleave at their sleeps and calls, every
\* measured iteration that settles adds exactly 1 to iterationCount, 1 to
\* errorIterations if it failed and requestsPerIteration to the item count
\* if it succeeded, whatever the other workers are in the middle of; so at
\* the end of run() the three counters, and the report's, are the totals
\* over all workers.
C36_NoCounterUpdateLost ==
    /\ [][ \A w \in Workers :
              Settles(w) =>
                  /\ iterationCount' = iterationCount + 1
                  /\ errorIterations' + requestCount' \div requestsPerIteration
                        = errorIterations + requestCount \div requestsPerIteration + 1
                  /\ errorIterations' \in {errorIterations, errorIterations + 1}
                  /\ measuredCalls' = measuredCalls + 1 ]_vars
    /\ [](iterationCount = measuredCalls
            /\ errorIterations = measuredFailures
            /\ requestCount = requestsPerIteration * (measuredCalls - measuredFailures))
    /\ [](report # <<>> =>
            /\ report[1].iterations = measuredCalls
            /\ report[1].errorIterations = measuredFailures
            /\ report[1].requests = requestsPerIteration * (measuredCalls - measuredFailures))

\* A run of the two workers has ended after four measured calls or more,
\* some of them failing: the report counts them all.
C36_Witness ==
    /\ report # <<>>
    /\ runpc = "returned"
    /\ measuredCalls >= 2 * Concurrency
    /\ measuredFailures >= 1
    /\ measuredFailures < measuredCalls
    /\ report[1].iterations = measuredCalls
    /\ report[1].errorIterations = measuredFailures

\* The attempts of request r that have failed.
FailedAttempts(r) ==
    IF rpc[r] \in {"wait", "failed"} THEN rattempt[r]
    ELSE IF rpc[r] = "idle" THEN 0
    ELSE rattempt[r] - 1

\* C37: with requests retrying at once on one workload object, the retry
\* delay reported is the sum, over the failed attempts that were followed by
\* another attempt, of the time from the failure to the start of the same
\* request's next attempt, and the retry attempts reported are the failed
\* attempts of all requests; when all requests are over as at any time
\* before.
C37_RetryDelayIsPerRequest ==
    /\ conflictsRetryDelay = observedDelay
    /\ conflictsRetryAttempts = SumOver(Requests, [r \in Requests |-> FailedAttempts(r)])

\* Both requests are over, one after four failures and one after a retry
\* that succeeded and that began before the other's last attempt; six ticks
\* or more of delay and five failed attempts are reported.
C37_Witness ==
    /\ rpc = <<"failed", "done">>
    /\ rattempt = <<4, 2>>
    /\ attemptStart[2] < attemptStart[1]
    /\ conflictsRetryAttempts = 5
    /\ conflictsRetryDelay >= 6
    /\ conflictsRetryDelay = observedDelay

\* The value recordDuration writes for a duration in microseconds.
RecordedAs(micros) == IF micros > 0 THEN micros ELSE 1

\* C38: every value in the request-latency and the service-time histogram is
\* an integer of 1 microsecond or more, and every measured iteration adds
\* exactly one value to each of them: its duration, or 1 when the duration
\* rounds to 0, so that both histograms hold as many values as there were
\* measured iterations.
C38_ZeroDurationRecordedAsOne ==
    /\ [](/\ \A v \in BagToSet(requestLatencyMicros) \cup BagToSet(serviceTimeMicros) :
                v \in Nat /\ v >= 1
          /\ BagCardinality(requestLatencyMicros) = iterationCount
          /\ BagCardinality(serviceTimeMicros) = iterationCount)
    /\ [][iterationCount' = iterationCount + 1 =>
            \E w \in Workers :
               /\ wpc[w] = "measure" /\ wpc'[w] = "idle"
               /\ requestLatencyMicros' = requestLatencyMicros
                     (+) SetToBag({RecordedAs(Micros(IterationDurationMillis(w)))})
               /\ serviceTimeMicros' = serviceTimeMicros
                     (+) SetToBag({RecordedAs(Micros(ServiceTimeMillis(w)))})]_vars

\* Three iterations were measured: two that resolved within one reading of
\* the clock, one of them started on time and one a millisecond late, and
\* one that took a millisecond.
C38_Witness ==
    /\ iterationCount = 3
    /\ CopiesIn(1, serviceTimeMicros) = 2
    /\ CopiesIn(Micros(Fixed(1)), serviceTimeMicros) = 1
    /\ CopiesIn(1, requestLatencyMicros) = 1
    /\ CopiesIn(Micros(Fixed(1)), requestLatencyMicros) = 2

\* A batch longer than the earlier variant allowed.
TooLong(b) == Len(b) > BatchSizeLimit

\* C39 as stated: a batch of more than 33 transfers is rejected before
\* anything is built or sent, so no command of it is in flight and the
\* table is as it was when the call began.
C39_LongBatchNeverSent ==
    TooLong(batch) =>
        /\ txpc # "sent"
        /\ items = <<>>
        /\ accounts = accountsBefore /\ transfers = transfersBefore

\* C39: createTransfersBatch builds and sends a batch whatever its length:
\* every call, one with a batch of more than 33 transfers too, hands the
\* table a command of the items built from the batch, and the table writes
\* all the transfers of such a batch at once or, rejecting the command,
\* writes nothing and changes no balance.
C39_LongBatchSentLikeAnyOther ==
    /\ [][calls' = calls + 1 =>
            /\ txpc' = "sent"
            /\ items' = BuildItems(batch')
            /\ received' = Append(received, Command(nextToken, BuildItems(batch')))]_vars
    /\ [][(txpc = "sent" /\ txpc' # "sent" /\ TooLong(batch)) =>
            \/ accounts' = accounts /\ transfers' = transfers
            \/ /\ { batch[k] : k \in DOMAIN batch } \subseteq transfers'
               /\ Cardinality(transfers') = Cardinality(transfers) + Len(batch)]_vars

\* A batch of 34 transfers from account 1 to account 2 was written in one
\* command of 36 items and the call returned OK.
C39_Witness ==
    /\ txpc = "idle"
    /\ Len(batch) = BatchSizeLimit + 1
    /\ outcome = <<Returned(BatchSizeLimit + 3)>>
    /\ Cardinality(transfers) = BatchSizeLimit + 1
    /\ accountsBefore = [a \in {1} |-> CreatedAccount]
    /\ accounts[1].debits_posted = ((BatchSizeLimit + 1) * (BatchSizeLimit + 2)) \div 2
    /\ accounts[2].credits_posted = ((BatchSizeLimit + 1) * (BatchSizeLimit + 2)) \div 2

=============================================================================
